---- MODULE Spec2Model ----
(***************************************************************************)
(* Defect-trend-analysis: the KPI engine (kpiService), the calendar        *)
(* resolver (dateService) and the dashboard's KPI effect (Index).          *)
(*                                                                         *)
(* The engine's operations are functions of (selection, range, store       *)
(* response, random source); each gets a specification whose Init draws    *)
(* the inputs and whose action applies the operation.  The dashboard is a  *)
(* state machine of timers and requests in flight.                         *)
(***************************************************************************)
EXTENDS Integers, Sequences, FiniteSets, TLC

VARIABLES
    input,          \* arguments and environment of the operation applied
    output,         \* its returned value (NotRun before the call)
    filters,        \* Index: selected (machine, mould, date range)
    timeoutId,      \* Index: the pending setTimeout of the KPI effect
    inflight,       \* Index: calculateKPI runs awaiting the store
    kpiData,        \* Index: useState kpiData
    isLoadingKPI,   \* Index: useState isLoadingKPI
    changes         \* Index: number of selection changes made so far

vars == <<input, output, filters, timeoutId, inflight, kpiData, isLoadingKPI, changes>>

dashVars == <<filters, timeoutId, inflight, kpiData, isLoadingKPI, changes>>

NotRun == [kind |-> "notrun"]

-----------------------------------------------------------------------------
(* Integer helpers *)

\* JavaScript Math.round of the rational p/q (q > 0): floor(p/q + 1/2).
RoundDiv(p, q) == (2 * p + q) \div (2 * q)

\* JavaScript numbers that are not integers are kept as exact fractions n/d, d > 0.
Abs(a) == IF a < 0 THEN -a ELSE a

RECURSIVE GCD(_, _)
GCD(a, b) == IF b = 0 THEN a ELSE GCD(b, a % b)

\* n/d in lowest terms
Frac(n, d) ==
    LET g == GCD(Abs(n), d)
    IN  [n |-> n \div g, d |-> d \div g]
FAdd(a, b) == Frac(a.n * b.d + b.n * a.d, a.d * b.d)
FSub(a, b) == Frac(a.n * b.d - b.n * a.d, a.d * b.d)
FLess(a, b) == a.n * b.d < b.n * a.d
FZero == Frac(0, 1)

\* Math.round(x * 100) / 100, returned in hundredths
Round2(x) == RoundDiv(100 * x.n, x.d)

RECURSIVE SumSeq(_)
SumSeq(s) == IF s = <<>> THEN 0 ELSE Head(s) + SumSeq(Tail(s))

-----------------------------------------------------------------------------
(* JavaScript strings as sequences of characters *)

IsSpace(c) == c = " "

RECURSIVE TrimLeft(_)
TrimLeft(s) == IF s # <<>> /\ IsSpace(Head(s)) THEN TrimLeft(Tail(s)) ELSE s

RECURSIVE TrimRight(_)
TrimRight(s) ==
    IF s # <<>> /\ IsSpace(s[Len(s)]) THEN TrimRight(SubSeq(s, 1, Len(s) - 1)) ELSE s

\* String.prototype.trim
Trim(s) == TrimRight(TrimLeft(s))

LowerCaseLetters ==
    <<"a", "b", "c", "d", "e", "f", "g", "h", "i", "j", "k", "l", "m",
      "n", "o", "p", "q", "r", "s", "t", "u", "v", "w", "x", "y", "z">>
UpperCaseLetters ==
    <<"A", "B", "C", "D", "E", "F", "G", "H", "I", "J", "K", "L", "M",
      "N", "O", "P", "Q", "R", "S", "T", "U", "V", "W", "X", "Y", "Z">>

UpperChar(c) ==
    IF \E i \in 1..26 : LowerCaseLetters[i] = c
    THEN UpperCaseLetters[CHOOSE i \in 1..26 : LowerCaseLetters[i] = c]
    ELSE c

\* String.prototype.toUpperCase
ToUpperCase(s) == [i \in 1..Len(s) |-> UpperChar(s[i])]

\* String.prototype.includes
Includes(s, sub) ==
    \E i \in 0..(Len(s) - Len(sub)) : SubSeq(s, i + 1, i + Len(sub)) = sub

-----------------------------------------------------------------------------
(* JavaScript values of document fields: undefined, null, integers, strings *)

Undefined == [t |-> "undefined"]
JsNull == [t |-> "null"]
NaN == [t |-> "nan"]
Num(n) == [t |-> "num", v |-> n]
Str(s) == [t |-> "str", s |-> s]

Digits == <<"0", "1", "2", "3", "4", "5", "6", "7", "8", "9">>

IsDigit(c) == \E i \in 1..10 : Digits[i] = c

DigitVal(c) == (CHOOSE i \in 1..10 : Digits[i] = c) - 1

RECURSIVE ParseDigits(_, _)
ParseDigits(s, acc) ==
    IF s = <<>> THEN acc ELSE ParseDigits(Tail(s), 10 * acc + DigitVal(Head(s)))

\* StringToNumber on integer literals: blank is 0, an optional sign and digits are
\* the integer, anything else is NaN
StringToNumber(s) ==
    LET u == Trim(s)
        signed == u # <<>> /\ Head(u) \in {"-", "+"}
        body == IF signed THEN Tail(u) ELSE u
    IN  IF u = <<>> THEN Num(0)
        ELSE IF body # <<>> /\ \A i \in 1..Len(body) : IsDigit(body[i])
        THEN Num(IF Head(u) = "-" THEN -ParseDigits(body, 0) ELSE ParseDigits(body, 0))
        ELSE NaN

\* Number(v)
ToNumber(v) ==
    CASE v.t = "undefined" -> NaN
      [] v.t = "null" -> Num(0)
      [] v.t = "num" -> v
      [] v.t = "nan" -> NaN
      [] v.t = "str" -> StringToNumber(v.s)

\* isNaN(x) for x = Number(v)
IsNaN(x) == x.t = "nan"

\* the truthiness of v: `!v`, `v || ...`, `if (v)`
Truthy(v) ==
    CASE v.t = "num" -> v.v # 0
      [] v.t = "str" -> v.s # <<>>
      [] OTHER -> FALSE

RECURSIVE NatToString(_)
NatToString(n) ==
    IF n < 10 THEN <<Digits[n + 1]>>
    ELSE NatToString(n \div 10) \o <<Digits[(n % 10) + 1]>>

\* String(v)
JsString(v) ==
    CASE v.t = "str" -> v.s
      [] v.t = "num" -> IF v.v < 0 THEN <<"-">> \o NatToString(-v.v) ELSE NatToString(v.v)
      [] v.t = "null" -> <<"n", "u", "l", "l">>
      [] v.t = "nan" -> <<"N", "a", "N">>
      [] OTHER -> <<"u", "n", "d", "e", "f", "i", "n", "e", "d">>

\* v || ''
OrEmpty(v) == IF Truthy(v) THEN v ELSE Str(<<>>)

-----------------------------------------------------------------------------
(* MongoDataRow: [timestamp, data], data = Undefined or a record of D-fields.    *)
(* A timestamp is Undefined, BadTimestamp (text that does not parse) or the   *)
(* local date [y, mo, d, h] its text parses to.                               *)

BadTimestamp == [t |-> "badts"]

HasTimestamp(row) == row.timestamp # Undefined

\* !isNaN(new Date(row.timestamp).getTime())
ValidTimestamp(row) == HasTimestamp(row) /\ row.timestamp # BadTimestamp

\* row.data?.F; a field the document does not carry is undefined
Field(row, f) ==
    IF row.data = Undefined \/ f \notin DOMAIN row.data THEN Undefined ELSE row.data[f]

\* the D17 filter of calculateKPIs, calculateMonthlyDefectRateData,
\* calculateDefectReasonBreakdown, calculateTotalDowntime, calculateTopRejectionReasons
MouldMatches(row, mould) ==
    /\ Truthy(Field(row, "D17"))
    /\ Trim(JsString(Field(row, "D17"))) = Trim(JsString(mould))

RECURSIVE Filter(_, _)
Filter(rows, mould) ==
    IF rows = <<>> THEN <<>>
    ELSE (IF MouldMatches(Head(rows), mould) THEN <<Head(rows)>> ELSE <<>>)
         \o Filter(Tail(rows), mould)

-----------------------------------------------------------------------------
(* JavaScript Date, in local time: [y, mo (0..11), d, h].  Minutes and below *)
(* are 0 in every instant the resolver builds; instants are compared by key. *)

Null == [kind |-> "null"]

IsLeap(y) == (y % 4 = 0 /\ y % 100 # 0) \/ y % 400 = 0

DaysInMonth(y, mo) ==
    IF mo = 1 THEN (IF IsLeap(y) THEN 29 ELSE 28)
    ELSE IF mo \in {3, 5, 8, 10} THEN 30 ELSE 31

\* new Date(y, mo, d, h, 0, 0, 0) for mo in 0..12 and d in 1..31: a month past
\* December rolls into the next year, a day past the month's end into the next month.
MakeDate(y, mo, d, h) ==
    LET y1  == IF mo > 11 THEN y + 1 ELSE y
        mo1 == IF mo > 11 THEN mo - 12 ELSE mo
        dim == DaysInMonth(y1, mo1)
    IN  IF d <= dim THEN [y |-> y1, mo |-> mo1, d |-> d, h |-> h]
        ELSE IF mo1 = 11 THEN [y |-> y1 + 1, mo |-> 0, d |-> d - dim, h |-> h]
        ELSE [y |-> y1, mo |-> mo1 + 1, d |-> d - dim, h |-> h]

\* Date.prototype.getTime, up to a monotone rescaling
GetTime(t) == ((t.y * 12 + t.mo) * 32 + t.d) * 24 + t.h

\* Date.prototype.setMonth(m) keeps the day of month, then normalises
SetMonth(t, m) == MakeDate(t.y, m, t.d, t.h)

\* Date.prototype.setDate(1)
SetDate1(t) == [t EXCEPT !.d = 1]

\* `${getFullYear()}-${String(getMonth() + 1).padStart(2, '0')}`: the YYYY-MM key,
\* compared with localeCompare, orders as the pair (year, month) does.
MonthKey(t) == t.y * 12 + t.mo

\* toLocaleDateString('en-US', {month: 'short', year: 'numeric'}), e.g. "Jul 2025"
MonthLabel(t) == [mo |-> t.mo, y |-> t.y]

-----------------------------------------------------------------------------
(* dateService *)

Throw == [kind |-> "throw"]

getQuarterDates_EndOfNextMonth(quarter, year) ==
    IF quarter \notin {1, 2, 3, 4} THEN Throw
    ELSE LET startMonth == 3 * (quarter - 1)
             endMonth   == startMonth + 2
             endDay     == 31
         IN  [kind |-> "ok", quarter |-> quarter, year |-> year,
              startDate |-> MakeDate(year, startMonth, 1, 8),
              endDate   |-> MakeDate(year, endMonth, endDay, 8)]

getQuarterDates_DefaultsToQ4(quarter, year) ==
    LET q == IF quarter \in {1, 2, 3} THEN quarter ELSE 4
    IN  [kind |-> "ok", quarter |-> q, year |-> year,
         startDate |-> MakeDate(year, 3 * (q - 1), 1, 8),
         endDate   |-> MakeDate(year, 3 * q - 1, IF q \in {1, 4} THEN 31 ELSE 30, 8)]

getQuarterDates(quarter, year) ==
    IF quarter \notin {1, 2, 3, 4} THEN Throw
    ELSE LET startMonth == CASE quarter = 1 -> 0 [] quarter = 2 -> 3
                             [] quarter = 3 -> 6 [] quarter = 4 -> 9
             endMonth   == CASE quarter = 1 -> 2 [] quarter = 2 -> 5
                             [] quarter = 3 -> 8 [] quarter = 4 -> 11
             endDay     == CASE quarter = 1 -> 31 [] quarter = 2 -> 30
                             [] quarter = 3 -> 30 [] quarter = 4 -> 31
         IN  [kind |-> "ok", quarter |-> quarter, year |-> year,
              startDate |-> MakeDate(year, startMonth, 1, 8),
              endDate   |-> MakeDate(year, endMonth, endDay, 8)]

\* the quarter of `now`, with the dates of that quarter in `year`
getCurrentQuarter(year, now) ==
    LET currentMonth == now.mo + 1
        quarter == IF currentMonth >= 1 /\ currentMonth <= 3 THEN 1
                   ELSE IF currentMonth >= 4 /\ currentMonth <= 6 THEN 2
                   ELSE IF currentMonth >= 7 /\ currentMonth <= 9 THEN 3
                   ELSE 4
    IN  getQuarterDates(quarter, year)

getPreviousQuarter_SameYear(year, now) ==
    LET currentQuarter == getCurrentQuarter(year, now)
    IN  IF currentQuarter.quarter = 1 THEN getQuarterDates(4, year)
        ELSE getQuarterDates(currentQuarter.quarter - 1, year)

getPreviousQuarter(year, now) ==
    LET currentQuarter == getCurrentQuarter(year, now)
    IN  IF currentQuarter.quarter = 1 THEN getQuarterDates(4, year - 1)
        ELSE getQuarterDates(currentQuarter.quarter - 1, year)

FixedQuarterRange(q, year) ==
    LET qd == getQuarterDates(q, year)
    IN  [startDate |-> qd.startDate, endDate |-> qd.endDate,
         label |-> [text |-> "Q", quarter |-> q, year |-> year]]

getDateRangeForTimePeriod(timePeriod, customStartDate, customEndDate, year, now) ==
    CASE timePeriod = "current-quarter" ->
            LET currentQuarter == getCurrentQuarter(year, now)
                todayAt8AM == MakeDate(now.y, now.mo, now.d, 8)
                endDate == IF GetTime(now) >= GetTime(currentQuarter.startDate)
                              /\ GetTime(now) <= GetTime(currentQuarter.endDate)
                           THEN todayAt8AM
                           ELSE currentQuarter.endDate
            IN  [startDate |-> currentQuarter.startDate, endDate |-> endDate,
                 label |-> [text |-> "Current Quarter",
                            quarter |-> currentQuarter.quarter, year |-> year]]
      [] timePeriod = "last-quarter" ->
            LET lastQuarter == getPreviousQuarter(year, now)
            IN  [startDate |-> lastQuarter.startDate, endDate |-> lastQuarter.endDate,
                 label |-> [text |-> "Last Quarter",
                            quarter |-> lastQuarter.quarter, year |-> lastQuarter.year]]
      [] timePeriod = "q1" -> FixedQuarterRange(1, year)
      [] timePeriod = "q2" -> FixedQuarterRange(2, year)
      [] timePeriod = "q3" -> FixedQuarterRange(3, year)
      [] timePeriod = "q4" -> FixedQuarterRange(4, year)
      [] timePeriod = "custom" ->
            LET startDate == IF customStartDate # Null
                             THEN MakeDate(customStartDate.y, customStartDate.mo,
                                           customStartDate.d, 8)
                             ELSE MakeDate(year, 0, 1, 8)
                endDate   == IF customEndDate # Null
                             THEN MakeDate(customEndDate.y, customEndDate.mo,
                                           customEndDate.d, 8)
                             ELSE MakeDate(now.y, now.mo, now.d, 8)
            IN  [startDate |-> startDate, endDate |-> endDate,
                 label |-> [text |-> "Custom", quarter |-> 0, year |-> year]]
      [] OTHER ->
            LET currentQuarter == getCurrentQuarter(year, now)
            IN  [startDate |-> currentQuarter.startDate, endDate |-> now,
                 label |-> [text |-> "Current Quarter",
                            quarter |-> currentQuarter.quarter, year |-> year]]


-----------------------------------------------------------------------------
(* The dashboard is idle in the specifications of the engine's operations *)

DashIdle ==
    /\ filters = Null
    /\ timeoutId = Null
    /\ inflight = {}
    /\ kpiData = Null
    /\ isLoadingKPI = FALSE
    /\ changes = 0

-----------------------------------------------------------------------------
(* SpecDate: getDateRangeForTimePeriod over selectors, reference years,      *)
(* current instants and custom dates                                         *)

TimePeriods ==
    {"current-quarter", "last-quarter", "q1", "q2", "q3", "q4", "custom", "unknown"}

RefYears == {2024, 2025}

\* current instants: first, middle and last day of every month, before, at and
\* after the 08:00 boundary
Nows ==
    {MakeDate(y, mo, d, h) :
        y \in {2025, 2026}, mo \in 0..11, d \in {1, 15, 28}, h \in {7, 8, 9}}
    \cup {MakeDate(y, mo, DaysInMonth(y, mo), h) :
        y \in {2025, 2026}, mo \in 0..11, h \in {7, 8, 9}}

\* dates of the date picker (midnight of the picked day)
CustomDates ==
    {MakeDate(2024, 10, 30, 0), MakeDate(2025, 0, 31, 0),
     MakeDate(2025, 2, 15, 0), MakeDate(2025, 11, 31, 0)}

\* quarter arguments: the four quarters and numbers on both sides of them
QuarterArgs == -1..6

DateInputs ==
    [op : {"getDateRangeForTimePeriod"}, timePeriod : TimePeriods \ {"custom"},
     customStartDate : {Null}, customEndDate : {Null}, year : RefYears, now : Nows]
    \cup
    [op : {"getDateRangeForTimePeriod"}, timePeriod : {"custom"},
     customStartDate : CustomDates \cup {Null}, customEndDate : CustomDates \cup {Null},
     year : RefYears, now : {n \in Nows : n.d = 15 /\ n.h = 9}]
    \cup
    [op : {"getQuarterDates"}, quarter : QuarterArgs, year : RefYears]

InitDate ==
    /\ input \in DateInputs
    /\ output = NotRun
    /\ DashIdle

Resolve ==
    /\ input.op = "getDateRangeForTimePeriod"
    /\ output = NotRun
    /\ output' = getDateRangeForTimePeriod(input.timePeriod, input.customStartDate,
                                           input.customEndDate, input.year, input.now)
    /\ UNCHANGED <<input, dashVars>>

QuarterDates ==
    /\ input.op = "getQuarterDates"
    /\ output = NotRun
    /\ output' = getQuarterDates(input.quarter, input.year)
    /\ UNCHANGED <<input, dashVars>>

NextDate == Resolve \/ QuarterDates

SpecDate == InitDate /\ [][NextDate]_vars

Resolved == input.op = "getDateRangeForTimePeriod" /\ output # NotRun

\* C9: for q1..q4 with reference year Y the resolved range is 08:00 on the
\* quarter's first day to 08:00 on its last day of year Y, whatever `now` is.
C9_FixedQuarterRange ==
    Resolved =>
        /\ input.timePeriod = "q1" =>
              /\ output.startDate = [y |-> input.year, mo |-> 0, d |-> 1, h |-> 8]
              /\ output.endDate = [y |-> input.year, mo |-> 2, d |-> 31, h |-> 8]
        /\ input.timePeriod = "q2" =>
              /\ output.startDate = [y |-> input.year, mo |-> 3, d |-> 1, h |-> 8]
              /\ output.endDate = [y |-> input.year, mo |-> 5, d |-> 30, h |-> 8]
        /\ input.timePeriod = "q3" =>
              /\ output.startDate = [y |-> input.year, mo |-> 6, d |-> 1, h |-> 8]
              /\ output.endDate = [y |-> input.year, mo |-> 8, d |-> 30, h |-> 8]
        /\ input.timePeriod = "q4" =>
              /\ output.startDate = [y |-> input.year, mo |-> 9, d |-> 1, h |-> 8]
              /\ output.endDate = [y |-> input.year, mo |-> 11, d |-> 31, h |-> 8]

\* Q1 2025 resolved while the clock stands in August 2026
C9_Witness ==
    /\ Resolved
    /\ input.timePeriod = "q1" /\ input.year = 2025
    /\ input.now.y = 2026 /\ input.now.mo = 7
    /\ output.startDate = [y |-> 2025, mo |-> 0, d |-> 1, h |-> 8]
    /\ output.endDate = [y |-> 2025, mo |-> 2, d |-> 31, h |-> 8]

\* the quarter the month of `now` lies in
QuarterOfNow == input.now.mo \div 3 + 1

\* today's calendar date lies in that quarter of the reference year
TodayInQuarter == input.now.y = input.year

\* C22: for current-quarter the start is 08:00 on the first day of the current
\* quarter; the end is 08:00 of today whenever today's calendar date lies inside
\* the quarter, at any time of day, and the quarter's fixed end otherwise.
C22_CurrentQuarterEndsToday ==
    (Resolved /\ input.timePeriod = "current-quarter") =>
        /\ output.startDate = MakeDate(input.year, 3 * (QuarterOfNow - 1), 1, 8)
        /\ output.endDate =
              IF TodayInQuarter
              THEN MakeDate(input.now.y, input.now.mo, input.now.d, 8)
              ELSE MakeDate(input.year, 3 * QuarterOfNow - 1,
                            DaysInMonth(input.year, 3 * QuarterOfNow - 1), 8)

\* the last day of a quarter
QuarterEndDay(q) == IF q \in {1, 4} THEN 31 ELSE 30

\* C23: for last-quarter with reference year Y the range is the full fixed range of
\* Q4 of Y - 1 when the current quarter is Q1, and of (current quarter - 1) of Y
\* otherwise; the end is never clipped to today, whatever the current instant.
C23_LastQuarterFullRange ==
    (Resolved /\ input.timePeriod = "last-quarter") =>
        LET q == IF QuarterOfNow = 1 THEN 4 ELSE QuarterOfNow - 1
            y == IF QuarterOfNow = 1 THEN input.year - 1 ELSE input.year
        IN  /\ output.startDate = [y |-> y, mo |-> 3 * (q - 1), d |-> 1, h |-> 8]
            /\ output.endDate = [y |-> y, mo |-> 3 * q - 1, d |-> QuarterEndDay(q), h |-> 8]

\* in February 2025 with reference year 2025 the range is Q4 2024
C23_Witness ==
    /\ Resolved
    /\ input.timePeriod = "last-quarter" /\ input.year = 2025
    /\ input.now.y = 2025 /\ input.now.mo = 1
    /\ output.startDate = [y |-> 2024, mo |-> 9, d |-> 1, h |-> 8]
    /\ output.endDate = [y |-> 2024, mo |-> 11, d |-> 31, h |-> 8]

C12_StartNotAfterEnd ==
    Resolved => GetTime(output.startDate) <= GetTime(output.endDate)


-----------------------------------------------------------------------------
(* kpiService: calculateMoldHealthIndex.  totalDowntime is in hundredths of  *)
(* an hour (calculateTotalDowntime rounds to 2 decimals); the result is in   *)
(* hundredths of a percent.                                                  *)

\* Math.max(0, x)
FMax0(x) == IF x.n < 0 THEN FZero ELSE x

NoFloor(x) == x

\* line 472: const finalMHI = Math.max(0, moldHealthIndex)
FloorAtZero(x) == FMax0(x)

calculateMoldHealthIndex_NoDowntimePenalty(totalUnitsProduced, totalRejection, totalDowntime, cycleTimeSeconds) ==
    LET rejectionPenalty ==
            IF totalUnitsProduced > 0
            THEN Frac(totalRejection * 100, totalUnitsProduced)
            ELSE FZero
    IN  Round2(FloorAtZero(FSub(Frac(100, 1), rejectionPenalty)))

calculateMoldHealthIndex(totalUnitsProduced, totalRejection, totalDowntime, cycleTimeSeconds) ==
    LET rejectionPenalty ==
            IF totalUnitsProduced > 0
            THEN Frac(totalRejection * 100, totalUnitsProduced)
            ELSE FZero
        \* (cycleTimeSeconds * totalUnitsProduced) / 3600
        expectedRuntimeHours ==
            IF cycleTimeSeconds > 0 /\ totalUnitsProduced > 0
            THEN Frac(cycleTimeSeconds * totalUnitsProduced, 3600)
            ELSE FZero
        \* (totalDowntime / expectedRuntimeHours) * 100, totalDowntime = hundredths / 100
        downtimePenalty ==
            IF expectedRuntimeHours.n > 0
            THEN Frac(totalDowntime * expectedRuntimeHours.d * 100,
                      100 * expectedRuntimeHours.n)
            ELSE FZero
        moldHealthIndex == FSub(Frac(100, 1), FAdd(rejectionPenalty, downtimePenalty))
        finalMHI == FloorAtZero(moldHealthIndex)
    IN  Round2(finalMHI)

MaxUnits == 4
MaxRejection == 5

\* a production total of the size of a month's output
LargeUnits == 30000

MHIInputs ==
    [op : {"calculateMoldHealthIndex"},
     totalUnitsProduced : 0..MaxUnits,
     totalRejection : 0..MaxRejection,
     totalDowntime : {0, 1, 2, 5}, cycleTimeSeconds : {0, 30, 3600}]
    \cup
    [op : {"calculateMoldHealthIndex"},
     totalUnitsProduced : {LargeUnits},
     totalRejection : {LargeUnits - 1, LargeUnits},
     totalDowntime : {0}, cycleTimeSeconds : {0, 30, 3600}]

InitMHI ==
    /\ input \in MHIInputs
    /\ output = NotRun
    /\ DashIdle

ComputeMHI ==
    /\ input.op = "calculateMoldHealthIndex"
    /\ output = NotRun
    /\ output' = [kind |-> "mhi",
                  value |-> calculateMoldHealthIndex(
                      input.totalUnitsProduced, input.totalRejection,
                      input.totalDowntime, input.cycleTimeSeconds)]
    /\ UNCHANGED <<input, dashVars>>

NextMHI == ComputeMHI

SpecMHI == InitMHI /\ [][NextMHI]_vars

\* C5: the Mold Health Index lies in [0, 100] for all non-negative inputs,
\* including cycleTimeSeconds = 0 and totalUnits = 0.
C5_MHIWithinBounds ==
    output.kind = "mhi" => output.value >= 0 /\ output.value <= 10000

\* rejections above the units with an unknown cycle time: the floor applies
C5_Witness ==
    /\ output.kind = "mhi"
    /\ input.cycleTimeSeconds = 0
    /\ input.totalUnitsProduced > 0
    /\ input.totalRejection > input.totalUnitsProduced
    /\ output.value = 0

\* rejections / units * 100, 0 without units
RejectionPenaltyOf(units, rejections) ==
    IF units = 0 THEN FZero ELSE Frac(rejections * 100, units)

\* downtimeHours / (cycleTime * units / 3600) * 100, 0 without cycle time or units;
\* the downtime is given in hundredths of an hour
DowntimePenaltyOf(units, downtime, cycleTime) ==
    IF cycleTime = 0 \/ units = 0 THEN FZero ELSE Frac(downtime * 3600, cycleTime * units)

PenaltySum ==
    FAdd(RejectionPenaltyOf(input.totalUnitsProduced, input.totalRejection),
         DowntimePenaltyOf(input.totalUnitsProduced, input.totalDowntime,
                           input.cycleTimeSeconds))

\* max(0, 100 - (rejectionPenalty + downtimePenalty)) rounded to 2 decimals, with
\* uncapped penalties; with cycleTime = 0 only the rejection penalty counts
MHIAsStated ==
    /\ output.value = Round2(FMax0(FSub(Frac(100, 1), PenaltySum)))
    /\ input.cycleTimeSeconds = 0 =>
          output.value = Round2(FMax0(FSub(Frac(100, 1),
                             RejectionPenaltyOf(input.totalUnitsProduced,
                                                input.totalRejection))))

-----------------------------------------------------------------------------
(* kpiService: rejection reasons *)

UnknownReason == <<"U", "n", "k", "n", "o", "w", "n", " ", "R", "e", "a", "s", "o", "n">>
Unknown == <<"U", "n", "k", "n", "o", "w", "n">>

\* Map<string, number>.set(key, (get(key) || 0) + n), in insertion order
RECURSIVE MapAdd(_, _, _)
MapAdd(m, key, n) ==
    IF m = <<>> THEN <<[key |-> key, count |-> n]>>
    ELSE IF Head(m).key = key THEN <<[key |-> key, count |-> Head(m).count + n]>> \o Tail(m)
    ELSE <<Head(m)>> \o MapAdd(Tail(m), key, n)

\* e placed behind every entry whose count is not smaller (a stable descending order)
RECURSIVE InsertByCount(_, _)
InsertByCount(sorted, e) ==
    IF sorted = <<>> THEN <<e>>
    ELSE IF Head(sorted).count >= e.count THEN <<Head(sorted)>> \o InsertByCount(Tail(sorted), e)
    ELSE <<e>> \o sorted

\* Array.prototype.sort((a, b) => b.count - a.count)
RECURSIVE SortByCountDesc(_)
SortByCountDesc(m) ==
    IF m = <<>> THEN <<>>
    ELSE InsertByCount(SortByCountDesc(SubSeq(m, 1, Len(m) - 1)), m[Len(m)])

RECURSIVE SumCount(_)
SumCount(m) == IF m = <<>> THEN 0 ELSE Head(m).count + SumCount(Tail(m))

SkipRejection_ZeroOnly(d52Value) ==
    \/ ~Truthy(d52Value)
    \/ IsNaN(ToNumber(d52Value))

\* line 528: if (!d52Value || isNaN(d52Number) || d52Number <= 0) return
SkipRejection(d52Value) ==
    \/ ~Truthy(d52Value)
    \/ IsNaN(ToNumber(d52Value))
    \/ ToNumber(d52Value).v <= 0

\* lines 534-541
TopReasonOf(d53Value) ==
    IF Truthy(d53Value) /\ Trim(JsString(d53Value)) # <<>>
    THEN Trim(JsString(d53Value))
    ELSE UnknownReason

RECURSIVE TopReasonMap(_, _)
TopReasonMap(rows, m) ==
    IF rows = <<>> THEN m
    ELSE LET d52Value == Field(Head(rows), "D52")
         IN  IF SkipRejection(d52Value) THEN TopReasonMap(Tail(rows), m)
             ELSE TopReasonMap(Tail(rows),
                               MapAdd(m, TopReasonOf(Field(Head(rows), "D53")),
                                      ToNumber(d52Value).v))

\* ((count / total) * 100).toFixed(1), in tenths of a percent
Percentage(count, total) == IF total > 0 THEN RoundDiv(1000 * count, total) ELSE 0

calculateTopRejectionReasons_PercentOfReturned(documents, mould) ==
    LET rejectionReasonMap == TopReasonMap(Filter(documents, mould), <<>>)
        sorted == SortByCountDesc([i \in 1..Len(rejectionReasonMap) |->
                      [reason |-> rejectionReasonMap[i].key,
                       count |-> rejectionReasonMap[i].count]])
        topReasons == SubSeq(sorted, 1, IF Len(sorted) < 3 THEN Len(sorted) ELSE 3)
    IN  [i \in 1..Len(topReasons) |->
            [reason |-> topReasons[i].reason, count |-> topReasons[i].count,
             percentage |-> Percentage(topReasons[i].count, SumCount(topReasons))]]

calculateTopRejectionReasons(documents, mould) ==
    LET rejectionReasonMap == TopReasonMap(Filter(documents, mould), <<>>)
        totalRejectionUnits == SumCount(rejectionReasonMap)
        sortedReasons ==
            SortByCountDesc(
                [i \in 1..Len(rejectionReasonMap) |->
                    [reason |-> rejectionReasonMap[i].key,
                     count |-> rejectionReasonMap[i].count,
                     percentage |-> Percentage(rejectionReasonMap[i].count,
                                               totalRejectionUnits)]])
    IN  SubSeq(sortedReasons, 1, IF Len(sortedReasons) < 3 THEN Len(sortedReasons) ELSE 3)

\* timestamp < dateRange.startDate || timestamp > dateRange.endDate
OutsideRange(t, dateRange) ==
    GetTime(t) < GetTime(dateRange.startDate) \/ GetTime(t) > GetTime(dateRange.endDate)

\* lines 1470-1487 of calculateDefectReasonBreakdown
SkipBreakdown(row, dateRange) ==
    \/ ~HasTimestamp(row)
    \/ ~ValidTimestamp(row)
    \/ OutsideRange(row.timestamp, dateRange)
    \/ Field(row, "D52") \in {Undefined, JsNull}
    \/ IsNaN(ToNumber(Field(row, "D52")))
    \/ ToNumber(Field(row, "D52")).v <= 0

\* lines 1489-1496
BreakdownReasonOf(d53Value) ==
    IF d53Value \notin {Undefined, JsNull}
       /\ Trim(JsString(d53Value)) \notin
            {<<>>, <<"n", "u", "l", "l">>, <<"u", "n", "d", "e", "f", "i", "n", "e", "d">>}
    THEN Trim(JsString(d53Value))
    ELSE Unknown

RECURSIVE DefectReasonMap(_, _, _)
DefectReasonMap(rows, dateRange, m) ==
    IF rows = <<>> THEN m
    ELSE IF SkipBreakdown(Head(rows), dateRange) THEN DefectReasonMap(Tail(rows), dateRange, m)
    ELSE DefectReasonMap(Tail(rows), dateRange,
                         MapAdd(m, BreakdownReasonOf(Field(Head(rows), "D53")),
                                ToNumber(Field(Head(rows), "D52")).v))

\* lines 1520-1526: [{name, value, count}] sorted by count, value = count / total * 100
BreakdownEntries(m) ==
    LET total == SumCount(m)
    IN  SortByCountDesc(
            [i \in 1..Len(m) |->
                [name |-> m[i].key,
                 value |-> IF total > 0 THEN Frac(m[i].count * 100, total) ELSE FZero,
                 count |-> m[i].count]])


-----------------------------------------------------------------------------
(* kpiService: calculatePostDowntimeDR, calculateTotalDowntime, fetchCycleTime *)

downtimeIndicators ==
    {<<"D", "O", "W", "N", "T", "I", "M", "E">>, <<"D", "O", "W", "N">>,
     <<"M", "A", "I", "N", "T", "E", "N", "A", "N", "C", "E">>, <<"S", "T", "O", "P">>,
     <<"O", "F", "F">>, <<"0">>, <<"S", "T", "O", "P", "P", "E", "D">>}

productionIndicators ==
    {<<"P", "R", "O", "D", "U", "C", "T", "I", "O", "N">>, <<"R", "U", "N">>,
     <<"R", "U", "N", "N", "I", "N", "G">>, <<"A", "C", "T", "I", "V", "E">>,
     <<"O", "N">>, <<"1">>, <<"P", "R", "O", "D", "U", "C", "I", "N", "G">>}

\* String(doc.data?.D2 || '').toUpperCase()
D2Value(doc) == ToUpperCase(JsString(OrEmpty(Field(doc, "D2"))))

IsDowntime(doc) == \E indicator \in downtimeIndicators : Includes(D2Value(doc), indicator)

\* lines 186-187
IsProduction(doc) ==
    \/ \E indicator \in productionIndicators : Includes(D2Value(doc), indicator)
    \/ /\ ~IsDowntime(doc)
       /\ Truthy(Field(doc, "D6"))
       /\ ~IsNaN(ToNumber(Field(doc, "D6")))
       /\ ToNumber(Field(doc, "D6")).v > 0

\* the comparator new Date(a.timestamp).getTime() - new Date(b.timestamp).getTime() > 0;
\* with a timestamp that does not parse it is NaN, which sort takes as 0
LaterThan(a, b) ==
    /\ ValidTimestamp(a) /\ ValidTimestamp(b)
    /\ GetTime(a.timestamp) > GetTime(b.timestamp)

RECURSIVE InsertByTime(_, _)
InsertByTime(sorted, doc) ==
    IF sorted = <<>> THEN <<doc>>
    ELSE IF LaterThan(sorted[Len(sorted)], doc)
    THEN InsertByTime(SubSeq(sorted, 1, Len(sorted) - 1), doc) \o <<sorted[Len(sorted)]>>
    ELSE sorted \o <<doc>>

\* documents.filter(doc => doc.timestamp).sort(by time), a stable sort
RECURSIVE SortedDocs(_)
SortedDocs(documents) ==
    IF documents = <<>> THEN <<>>
    ELSE LET last == documents[Len(documents)]
             rest == SortedDocs(SubSeq(documents, 1, Len(documents) - 1))
         IN  IF HasTimestamp(last) THEN InsertByTime(rest, last) ELSE rest

\* line 156: let lastDowntimeIndex = -1
InitialDowntimeIndex == -1

RECURSIVE Scan_CandidateBeforeUpdate(_, _, _)
Scan_CandidateBeforeUpdate(sortedDocs, index, lastDowntimeIndex) ==
    IF index >= Len(sortedDocs) THEN <<>>
    ELSE LET doc == sortedDocs[index + 1]
             last == IF IsDowntime(doc) THEN index ELSE lastDowntimeIndex
         IN  (IF IsProduction(doc) /\ lastDowntimeIndex >= 0 /\ index > lastDowntimeIndex
              THEN <<doc>> ELSE <<>>)
             \o Scan_CandidateBeforeUpdate(sortedDocs, index + 1, last)

\* lines 174-194: the scan from position `index` (0-based) on
RECURSIVE Scan(_, _, _)
Scan(sortedDocs, index, lastDowntimeIndex) ==
    IF index >= Len(sortedDocs) THEN <<>>
    ELSE LET doc == sortedDocs[index + 1]
             last == IF IsDowntime(doc) THEN index ELSE lastDowntimeIndex
         IN  (IF IsProduction(doc) /\ last >= 0 /\ index > last THEN <<doc>> ELSE <<>>)
             \o Scan(sortedDocs, index + 1, last)

PostDowntimeDocs_FromZero(documents) == Scan(SortedDocs(documents), 0, 0)

PostDowntimeDocs(documents) == Scan(SortedDocs(documents), 0, InitialDowntimeIndex)

\* lines 199-203: String(doc.data?.D17 || '').trim() === String(mould).trim()
PostMouldMatches(doc, mould) ==
    Trim(JsString(OrEmpty(Field(doc, "D17")))) = Trim(JsString(mould))

\* the sum of Number(doc.data.F) over the documents where F is neither undefined nor
\* null and is a number
RECURSIVE SumField(_, _)
SumField(docs, f) ==
    IF docs = <<>> THEN 0
    ELSE LET v == Field(Head(docs), f)
         IN  (IF v \notin {Undefined, JsNull} /\ ~IsNaN(ToNumber(v)) THEN ToNumber(v).v ELSE 0)
             + SumField(Tail(docs), f)

\* the same sum over the values that are also > 0
RECURSIVE SumPositiveField(_, _)
SumPositiveField(docs, f) ==
    IF docs = <<>> THEN 0
    ELSE LET v == Field(Head(docs), f)
         IN  (IF v \notin {Undefined, JsNull} /\ ~IsNaN(ToNumber(v)) /\ ToNumber(v).v > 0
              THEN ToNumber(v).v ELSE 0)
             + SumPositiveField(Tail(docs), f)

calculatePostDowntimeDR_FilterFirst(documents, mould) ==
    LET ofMould == SelectSeq(documents, LAMBDA doc : PostMouldMatches(doc, mould))
        postDowntimeDocs == PostDowntimeDocs(ofMould)
        postDowntimeRejections == SumField(postDowntimeDocs, "D52")
        postDowntimeUnitsProduced == SumField(postDowntimeDocs, "D6")
    IN  IF postDowntimeUnitsProduced > 0
        THEN Round2(Frac(postDowntimeRejections * 100, postDowntimeUnitsProduced))
        ELSE 0

\* returns the rate in hundredths of a percent
calculatePostDowntimeDR(documents, mould) ==
    LET postDowntimeDocs == PostDowntimeDocs(documents)
        mouldFilteredPostDowntimeDocs ==
            SelectSeq(postDowntimeDocs, LAMBDA doc : PostMouldMatches(doc, mould))
        postDowntimeRejections == SumField(mouldFilteredPostDowntimeDocs, "D52")
        postDowntimeUnitsProduced == SumField(mouldFilteredPostDowntimeDocs, "D6")
    IN  IF postDowntimeUnitsProduced > 0
        THEN Round2(Frac(postDowntimeRejections * 100, postDowntimeUnitsProduced))
        ELSE 0

\* returns hundredths of an hour
calculateTotalDowntime(documents, mould) ==
    LET totalDowntimeSeconds == SumPositiveField(Filter(documents, mould), "D9")
    IN  Round2(Frac(totalDowntimeSeconds, 3600))

RECURSIVE FindCycleTime_FirstMatchOnly(_, _)
FindCycleTime_FirstMatchOnly(mongoRows, mould) ==
    IF mongoRows = <<>> THEN 0
    ELSE LET doc == Head(mongoRows)
             d2 == Field(doc, "D2")
         IN  IF /\ Truthy(Field(doc, "D0"))
                /\ Trim(JsString(Field(doc, "D0"))) = Trim(JsString(mould))
             THEN IF d2 \notin {Undefined, JsNull} /\ ~IsNaN(ToNumber(d2))
                     /\ ToNumber(d2).v > 0
                  THEN ToNumber(d2).v ELSE 0
             ELSE FindCycleTime_FirstMatchOnly(Tail(mongoRows), mould)

\* lines 362-386: the first entry named like the mould whose D2 is a positive number
RECURSIVE FindCycleTime(_, _)
FindCycleTime(mongoRows, mould) ==
    IF mongoRows = <<>> THEN 0
    ELSE LET doc == Head(mongoRows)
             d2 == Field(doc, "D2")
         IN  IF /\ Truthy(Field(doc, "D0"))
                /\ Trim(JsString(Field(doc, "D0"))) = Trim(JsString(mould))
                /\ d2 \notin {Undefined, JsNull}
                /\ ~IsNaN(ToNumber(d2))
                /\ ToNumber(d2).v > 0
             THEN ToNumber(d2).v
             ELSE FindCycleTime(Tail(mongoRows), mould)

\* response: the store's answer to the mould-mapping request
fetchCycleTime(mould, response) ==
    IF response.kind # "rows" THEN 0 ELSE FindCycleTime(response.rows, mould)


-----------------------------------------------------------------------------
(* SpecPostDT: calculatePostDowntimeDR over document streams *)

MouldA == Str(<<"A">>)

Day(y, mo, d) == MakeDate(y, mo, d, 12)

PostData ==
    { [D2 |-> Str(<<"r", "u", "n">>), D6 |-> Num(10), D52 |-> Num(1), D17 |-> Str(<<"A">>)],
      [D2 |-> Str(<<"D", "O", "W", "N">>), D17 |-> Str(<<"A">>)],
      [D2 |-> Str(<<"S", "h", "u", "t", "d", "o", "w", "n">>), D6 |-> Num(2),
       D17 |-> Str(<<"B">>)],
      [D2 |-> Str(<<"1", "0">>), D6 |-> Num(5), D52 |-> Num(1), D17 |-> Str(<<"A">>)],
      [D6 |-> Str(<<"4">>), D52 |-> Num(2), D17 |-> Str(<<" ", "A", " ">>)],
      [D2 |-> Num(0), D6 |-> Num(3), D52 |-> Num(3), D17 |-> Str(<<"A">>)] }

\* every kind of document on two days, and an undated production and downtime one
PostDocs ==
    [timestamp : {Day(2025, 0, 10), Day(2025, 0, 20)}, data : PostData]
    \cup [timestamp : {Undefined},
          data : {d \in PostData : d.D17 = Str(<<"A">>) /\ "D2" \in DOMAIN d /\ d.D2.t = "str"
                                   /\ Len(d.D2.s) > 2}]

MaxPostDocs == 3

SeqsUpTo(S, n) == UNION {[1..k -> S] : k \in 0..n}

PostInputs ==
    [op : {"calculatePostDowntimeDR"}, documents : SeqsUpTo(PostDocs, MaxPostDocs),
     mould : {MouldA}]

InitPostDT ==
    /\ input \in PostInputs
    /\ output = NotRun
    /\ DashIdle

ComputePostDowntimeDR ==
    /\ input.op = "calculatePostDowntimeDR"
    /\ output = NotRun
    /\ output' = [kind |-> "postdt",
                  postDowntimeDocs |-> PostDowntimeDocs(input.documents),
                  value |-> calculatePostDowntimeDR(input.documents, input.mould)]
    /\ UNCHANGED <<input, dashVars>>

NextPostDT == ComputePostDowntimeDR

SpecPostDT == InitPostDT /\ [][NextPostDT]_vars

NoDowntimeDocument ==
    \A i \in 1..Len(input.documents) : ~IsDowntime(input.documents[i])

\* C6: with no downtime-classified document in the stream, no post-event
\* production candidate is recorded and calculatePostDowntimeDR returns 0.
C6_NoDowntimeNoCandidates ==
    (output.kind = "postdt" /\ NoDowntimeDocument) =>
        output.postDowntimeDocs = <<>> /\ output.value = 0

\* two dated production documents of the mould with units and defects, no downtime
C6_Witness ==
    /\ output.kind = "postdt"
    /\ NoDowntimeDocument
    /\ Len(input.documents) >= 2
    /\ \A i \in 1..Len(input.documents) :
          /\ IsProduction(input.documents[i])
          /\ HasTimestamp(input.documents[i])
          /\ PostMouldMatches(input.documents[i], input.mould)
          /\ ToNumber(Field(input.documents[i], "D52")).v > 0
    /\ input.documents[1].timestamp # input.documents[2].timestamp
    /\ output.postDowntimeDocs = <<>>
    /\ output.value = 0


\* the members of a set of integers in ascending order
RECURSIVE Ascending(_)
Ascending(S) ==
    IF S = {} THEN <<>>
    ELSE LET m == CHOOSE x \in S : \A y \in S : x <= y
         IN  <<m>> \o Ascending(S \ {m})

\* the positions of the documents that are production, not downtime, and have a
\* downtime document strictly before them
CandidatePositions(sortedDocs) ==
    { i \in 1..Len(sortedDocs) :
        /\ IsProduction(sortedDocs[i])
        /\ ~IsDowntime(sortedDocs[i])
        /\ \E j \in 1..(i - 1) : IsDowntime(sortedDocs[j]) }

\* the two-state model of the scan: Normal until the first downtime document, then
\* FollowingDowntime for good; a document is a candidate when it is production, not
\* itself downtime, and met in FollowingDowntime
RECURSIVE TwoStateCandidates(_, _)
TwoStateCandidates(sortedDocs, state) ==
    IF sortedDocs = <<>> THEN <<>>
    ELSE LET doc == Head(sortedDocs)
         IN  (IF state = "FollowingDowntime" /\ IsProduction(doc) /\ ~IsDowntime(doc)
              THEN <<doc>> ELSE <<>>)
             \o TwoStateCandidates(Tail(sortedDocs),
                                   IF IsDowntime(doc) THEN "FollowingDowntime" ELSE state)

\* C20: in the scan of calculatePostDowntimeDR a document is a candidate exactly
\* when it is classified production, is not itself classified downtime, and some
\* strictly earlier document of the sorted stream is classified downtime: the
\* candidates are those of the two-state model (Normal, FollowingDowntime) that
\* never leaves FollowingDowntime, and a document matching both a downtime and a
\* production keyword is never a candidate.
C20_CandidatesFollowDowntime ==
    output.kind = "postdt" =>
        /\ output.postDowntimeDocs
              = TwoStateCandidates(SortedDocs(input.documents), "Normal")
        /\ \A i \in 1..Len(output.postDowntimeDocs) :
              /\ IsProduction(output.postDowntimeDocs[i])
              /\ ~IsDowntime(output.postDowntimeDocs[i])
        /\ LET sortedDocs == SortedDocs(input.documents)
               positions == CandidatePositions(sortedDocs)
           IN  output.postDowntimeDocs
                  = [k \in 1..Cardinality(positions) |->
                        sortedDocs[Ascending(positions)[k]]]

\* after a downtime document, a document matching both a downtime and a production
\* keyword ("10") is passed over and the running document after it is the candidate
C20_Witness ==
    /\ output.kind = "postdt"
    /\ Len(input.documents) = 3
    /\ SortedDocs(input.documents) = input.documents
    /\ IsDowntime(input.documents[1]) /\ ~IsProduction(input.documents[1])
    /\ IsDowntime(input.documents[2]) /\ IsProduction(input.documents[2])
    /\ ~IsDowntime(input.documents[3]) /\ IsProduction(input.documents[3])
    /\ output.postDowntimeDocs = <<input.documents[3]>>

-----------------------------------------------------------------------------
(* The random source: Math.random() returns rnd[i % RandPeriod] / RandLevels at *)
(* the i-th draw of a call.                                                     *)

RandLevels == 2
RandPeriod == 2

RandomSources == [0..(RandPeriod - 1) -> 0..(RandLevels - 1)]

\* Math.random() at draw i
Random(rnd, i) == Frac(rnd[i % RandPeriod], RandLevels)

FMul(a, b) == Frac(a.n * b.n, a.d * b.d)

\* Math.round of a fraction
Round(x) == RoundDiv(x.n, x.d)

FMax(a, b) == IF FLess(a, b) THEN b ELSE a

-----------------------------------------------------------------------------
(* kpiService: the degraded-mode synthesizer *)

\* currentDate.setMonth(currentDate.getMonth() + 1); currentDate.setDate(1)
NextMonth(currentDate) == SetDate1(SetMonth(currentDate, currentDate.mo + 1))

\* lines 1168-1196: the loop from currentDate on; draw is the index of the next draw
RECURSIVE TestMonths(_, _, _, _, _, _)
TestMonths(currentDate, dateRange, monthIndex, rnd, baseUnits, baseDefectRate) ==
    IF GetTime(currentDate) > GetTime(dateRange.endDate) THEN <<>>
    ELSE LET draw == 2 + 2 * monthIndex
             variation == FAdd(Frac(7, 10), FMul(Random(rnd, draw), Frac(6, 10)))
             unitsProduced == Round(FMul(baseUnits, variation))
             defectRate ==
                 FMax(Frac(1, 10),
                      FAdd(baseDefectRate,
                           FMul(FSub(Random(rnd, draw + 1), Frac(1, 2)), Frac(15, 10))))
             defectUnits == Round(FMul(Frac(unitsProduced, 1), FMul(defectRate, Frac(1, 100))))
             entry == [month |-> MonthLabel(currentDate), unitsProduced |-> unitsProduced,
                       defectUnits |-> defectUnits, defectRate |-> defectRate]
         IN  IF monthIndex + 1 > 12 THEN <<entry>>
             ELSE <<entry>> \o TestMonths(NextMonth(currentDate), dateRange, monthIndex + 1,
                                          rnd, baseUnits, baseDefectRate)

generateTestMonthlyData(dateRange, mould, rnd) ==
    LET baseUnits == FAdd(Frac(8000, 1), FMul(Random(rnd, 0), Frac(4000, 1)))
        baseDefectRate == FAdd(Frac(15, 10), FMul(Random(rnd, 1), Frac(2, 1)))
    IN  TestMonths(dateRange.startDate, dateRange, 0, rnd, baseUnits, baseDefectRate)

RECURSIVE SumUnits(_)
SumUnits(monthly) == IF monthly = <<>> THEN 0 ELSE Head(monthly).unitsProduced + SumUnits(Tail(monthly))

RECURSIVE SumDefects(_)
SumDefects(monthly) == IF monthly = <<>> THEN 0 ELSE Head(monthly).defectUnits + SumDefects(Tail(monthly))

ShortMolding == <<"S", "h", "o", "r", "t", " ", "M", "o", "l", "d", "i", "n", "g">>
Flash == <<"F", "l", "a", "s", "h">>
BurnMark == <<"B", "u", "r", "n", " ", "M", "a", "r", "k">>
BlackSpot == <<"B", "l", "a", "c", "k", " ", "S", "p", "o", "t">>
SilverMark == <<"S", "i", "l", "v", "e", "r", " ", "M", "a", "r", "k">>
Warpage == <<"W", "a", "r", "p", "a", "g", "e">>

generateTestKPIData(machine, mould, dateRange, rnd) ==
    LET monthlyTestData == generateTestMonthlyData(dateRange, mould, rnd)
        draw == 2 + 2 * Len(monthlyTestData)
        totalUnitsProduced == SumUnits(monthlyTestData)
        totalDefectUnits == SumDefects(monthlyTestData)
    IN  [totalUnitsProduced |-> totalUnitsProduced,
         totalRejection |-> totalDefectUnits,
         postDowntimeDR |-> FMul(Random(rnd, draw), Frac(1, 10)),
         totalDowntime |-> FAdd(Frac(30, 1), FMul(Random(rnd, draw + 1), Frac(20, 1))),
         moldHealthIndex |-> FAdd(Frac(75, 1), FMul(Random(rnd, draw + 2), Frac(20, 1))),
         topRejectionReasons |->
            << [reason |-> ShortMolding, count |-> RoundDiv(totalDefectUnits * 60, 100),
                percentage |-> FAdd(Frac(60, 1), FMul(Random(rnd, draw + 3), Frac(10, 1)))],
               [reason |-> Flash, count |-> RoundDiv(totalDefectUnits * 25, 100),
                percentage |-> FAdd(Frac(20, 1), FMul(Random(rnd, draw + 4), Frac(10, 1)))],
               [reason |-> BurnMark, count |-> RoundDiv(totalDefectUnits * 15, 100),
                percentage |-> FAdd(Frac(10, 1), FMul(Random(rnd, draw + 5), Frac(10, 1)))] >>,
         documentCount |-> 450 + Round(FMul(Random(rnd, draw + 6), Frac(50, 1))),
         dateRange |-> <<dateRange.startDate, dateRange.endDate>>,
         machine |-> machine,
         mould |-> mould]


\* reasonDistribution: <<[name, percentage]>>; each percentage divided by their sum
Normalize(dist) ==
    LET RECURSIVE Total(_)
        Total(d) == IF d = <<>> THEN FZero ELSE FAdd(Head(d).percentage, Total(Tail(d)))
        totalPercentage == Total(dist)
    IN  [i \in 1..Len(dist) |->
            [name |-> dist[i].name,
             percentage |-> Frac(dist[i].percentage.n * totalPercentage.d,
                                 dist[i].percentage.d * totalPercentage.n)]]

\* lines 1307-1338
ReasonDistribution(totalRejectionUnits) ==
    LET base == << [name |-> ShortMolding, percentage |-> Frac(861, 1000)],
                   [name |-> BlackSpot, percentage |-> Frac(139, 1000)] >>
        over100 == IF totalRejectionUnits > 100
                   THEN Normalize(base \o << [name |-> Flash, percentage |-> Frac(8, 100)],
                                             [name |-> SilverMark, percentage |-> Frac(5, 100)] >>)
                   ELSE base
    IN  IF totalRejectionUnits > 500
        THEN Normalize(over100 \o << [name |-> BurnMark, percentage |-> Frac(3, 100)],
                                     [name |-> Warpage, percentage |-> Frac(2, 100)] >>)
        ELSE over100

RECURSIVE AssignCounts_AllRounded(_, _, _, _)
AssignCounts_AllRounded(dist, index, totalRejectionUnits, assignedTotal) ==
    IF index > Len(dist) THEN <<>>
    ELSE LET count == Round(FMul(Frac(totalRejectionUnits, 1), dist[index].percentage))
         IN  (IF count > 0
              THEN <<[name |-> dist[index].name,
                      value |-> Frac(count * 100, totalRejectionUnits),
                      count |-> count]>>
              ELSE <<>>)
             \o AssignCounts_AllRounded(dist, index + 1, totalRejectionUnits,
                                        assignedTotal + count)

\* lines 1344-1362: the entries from position index on
RECURSIVE AssignCounts(_, _, _, _)
AssignCounts(dist, index, totalRejectionUnits, assignedTotal) ==
    IF index > Len(dist) THEN <<>>
    ELSE LET count == IF index = Len(dist) THEN totalRejectionUnits - assignedTotal
                      ELSE Round(FMul(Frac(totalRejectionUnits, 1), dist[index].percentage))
         IN  (IF count > 0
              THEN <<[name |-> dist[index].name,
                      value |-> Frac(count * 100, totalRejectionUnits),
                      count |-> count]>>
              ELSE <<>>)
             \o AssignCounts(dist, index + 1, totalRejectionUnits,
                             IF index = Len(dist) THEN assignedTotal ELSE assignedTotal + count)

generateTestDefectReasonData(mould, totalRejectionUnits) ==
    IF totalRejectionUnits <= 0 THEN <<>>
    ELSE SortByCountDesc(
            AssignCounts(ReasonDistribution(totalRejectionUnits), 1, totalRejectionUnits, 0))

\* line 1294: totalRejectionUnits: number = 72
DefaultRejectionUnits == 72

-----------------------------------------------------------------------------
(* The store: its answer to a request is [kind |-> "fail"] (the request       *)
(* rejects), [kind |-> "nodata"] (a response without a data list) or          *)
(* [kind |-> "rows", rows |-> <<documents>>].  store.telemetry answers an     *)
(* operation's own request, store.again the request getTotalRejectionUnits    *)
(* repeats, store.mapping the mould-mapping request of fetchCycleTime.        *)

Fail == [kind |-> "fail"]
NoData == [kind |-> "nodata"]
Rows(rows) == [kind |-> "rows", rows |-> rows]

\* what an operation hands back: a returned value, with the return statement
\* that produced it ("real" or a degraded-mode one), or a thrown error
Return(via, value) == [kind |-> "return", via |-> via, value |-> value]

getTotalRejectionUnits(machine, mould, dateRange, response, rnd) ==
    IF response.kind # "rows"
    THEN SumDefects(generateTestMonthlyData(dateRange, mould, rnd))
    ELSE LET mouldFilteredDocs == Filter(response.rows, mould)
         IN  IF Len(mouldFilteredDocs) = 0
             THEN SumDefects(generateTestMonthlyData(dateRange, mould, rnd))
             ELSE SumField(mouldFilteredDocs, "D52")

\* lines 1548-1554, and the same two statements at 1434, 1457 and 1515
BreakdownCatch(machine, mould, dateRange, store, rnd) ==
    Return("test",
           generateTestDefectReasonData(
               mould, getTotalRejectionUnits(machine, mould, dateRange, store.again, rnd)))

BreakdownTry(machine, mould, dateRange, store, rnd) ==
    IF store.telemetry.kind = "fail" THEN Throw
    ELSE IF store.telemetry.kind = "nodata"
    THEN BreakdownCatch(machine, mould, dateRange, store, rnd)
    ELSE LET mouldFilteredDocs == Filter(store.telemetry.rows, mould)
             defectReasonMap == DefectReasonMap(mouldFilteredDocs, dateRange, <<>>)
         IN  IF Len(mouldFilteredDocs) = 0
             THEN BreakdownCatch(machine, mould, dateRange, store, rnd)
             ELSE IF SumCount(defectReasonMap) = 0 \/ Len(defectReasonMap) = 0
             THEN BreakdownCatch(machine, mould, dateRange, store, rnd)
             ELSE Return("real", BreakdownEntries(defectReasonMap))

calculateDefectReasonBreakdown(machine, mould, dateRange, store, rnd) ==
    LET try == BreakdownTry(machine, mould, dateRange, store, rnd)
    IN  IF try = Throw THEN BreakdownCatch(machine, mould, dateRange, store, rnd) ELSE try


-----------------------------------------------------------------------------
(* kpiService: calculateMonthlyDefectRateData *)

possibleTimestampFields == <<"createdAt", "updatedAt", "date", "time", "_ts", "ts">>

\* (row as any)[field]
RowField(row, f) == IF f \in DOMAIN row THEN row[f] ELSE Undefined

\* lines 1005-1016: the first alternative field that parses
RECURSIVE AltTimestamp(_, _)
AltTimestamp(row, i) ==
    IF i > Len(possibleTimestampFields) THEN Null
    ELSE LET v == RowField(row, possibleTimestampFields[i])
         IN  IF v # Undefined /\ v # BadTimestamp THEN v
             ELSE AltTimestamp(row, i + 1)

\* lines 993-1017: the instant a document is grouped by, or Null
MonthlyTimestamp(row) ==
    IF HasTimestamp(row)
    THEN (IF row.timestamp # BadTimestamp THEN row.timestamp ELSE Null)
    ELSE AltTimestamp(row, 1)

HasKey(map, monthKey) == \E i \in 1..Len(map) : map[i].monthKey = monthKey

EmptyBucket(t) ==
    [monthKey |-> MonthKey(t), month |-> MonthLabel(t), unitsProduced |-> 0, defectCount |-> 0]

\* lines 957-974: one bucket for every month the loop's cursor visits
RECURSIVE Prepopulate(_, _, _)
Prepopulate(currentDate, dateRange, monthlyDataMap) ==
    IF GetTime(currentDate) > GetTime(dateRange.endDate) THEN monthlyDataMap
    ELSE Prepopulate(NextMonth(currentDate), dateRange,
                     IF HasKey(monthlyDataMap, MonthKey(currentDate)) THEN monthlyDataMap
                     ELSE Append(monthlyDataMap, EmptyBucket(currentDate)))

\* lines 1048-1067: a field adds to its month when it is a number > 0
PositivePart(v) ==
    IF v \in {Undefined, JsNull} THEN 0
    ELSE LET n == ToNumber(v)
         IN  IF ~IsNaN(n) /\ n.v > 0 THEN n.v ELSE 0

\* lines 991-1070, one document
AggregateRow(monthlyDataMap, row, dateRange) ==
    LET timestamp == MonthlyTimestamp(row)
    IN  IF timestamp = Null THEN monthlyDataMap
        ELSE IF OutsideRange(timestamp, dateRange) THEN monthlyDataMap
        ELSE LET map1 == IF HasKey(monthlyDataMap, MonthKey(timestamp)) THEN monthlyDataMap
                         ELSE Append(monthlyDataMap, EmptyBucket(timestamp))
             IN  [i \in 1..Len(map1) |->
                    IF map1[i].monthKey = MonthKey(timestamp)
                    THEN [map1[i] EXCEPT
                            !.unitsProduced = @ + PositivePart(Field(row, "D6")),
                            !.defectCount = @ + PositivePart(Field(row, "D52"))]
                    ELSE map1[i]]

RECURSIVE Aggregate(_, _, _)
Aggregate(monthlyDataMap, docs, dateRange) ==
    IF docs = <<>> THEN monthlyDataMap
    ELSE Aggregate(AggregateRow(monthlyDataMap, Head(docs), dateRange), Tail(docs), dateRange)

MonthRate_NoZeroGuard(unitsProduced, defectCount) ==
    IF unitsProduced = 0 THEN NaN ELSE Frac(defectCount * 100, unitsProduced)

\* line 1103: data.unitsProduced > 0 ? (data.defectCount / data.unitsProduced) * 100 : 0
MonthRate(unitsProduced, defectCount) ==
    IF unitsProduced > 0 THEN Frac(defectCount * 100, unitsProduced) ELSE FZero

RECURSIVE InsertByMonthKey(_, _)
InsertByMonthKey(sorted, e) ==
    IF sorted = <<>> THEN <<e>>
    ELSE IF e.monthKey < Head(sorted).monthKey THEN <<e>> \o sorted
    ELSE <<Head(sorted)>> \o InsertByMonthKey(Tail(sorted), e)

\* lines 1106-1109: a stable sort by month key
RECURSIVE SortByMonthKey(_)
SortByMonthKey(entries) ==
    IF entries = <<>> THEN <<>>
    ELSE InsertByMonthKey(SortByMonthKey(SubSeq(entries, 1, Len(entries) - 1)),
                          entries[Len(entries)])

\* lines 1098-1110
ChartEntries(monthlyDataMap) ==
    LET sorted == SortByMonthKey(monthlyDataMap)
    IN  [i \in 1..Len(sorted) |->
            [month |-> sorted[i].month,
             unitsProduced |-> sorted[i].unitsProduced,
             defectUnits |-> sorted[i].defectCount,
             defectRate |-> MonthRate(sorted[i].unitsProduced, sorted[i].defectCount)]]

SumBucketUnits_CountsBuckets(map) == Len(map)

RECURSIVE SumBucketUnits(_)
SumBucketUnits(map) ==
    IF map = <<>> THEN 0 ELSE Head(map).unitsProduced + SumBucketUnits(Tail(map))

\* lines 1129-1148
MonthlyCatch(dateRange, mould, rnd) ==
    Return("test", generateTestMonthlyData(dateRange, mould, rnd))

\* lines 888-1127
MonthlyTry(machine, mould, dateRange, store, rnd) ==
    IF store.telemetry.kind = "fail" THEN Throw
    ELSE IF store.telemetry.kind = "nodata"
    THEN Return("test", generateTestMonthlyData(dateRange, mould, rnd))
    ELSE LET mouldFilteredDocs == Filter(store.telemetry.rows, mould)
         IN  IF Len(mouldFilteredDocs) = 0
             THEN Return("test", generateTestDefectReasonData(mould, DefaultRejectionUnits))
             ELSE LET monthlyDataMap ==
                          Aggregate(Prepopulate(dateRange.startDate, dateRange, <<>>),
                                    mouldFilteredDocs, dateRange)
                      totalUnitsAggregated == SumBucketUnits(monthlyDataMap)
                  IN  IF totalUnitsAggregated = 0
                      THEN Return("test", generateTestMonthlyData(dateRange, mould, rnd))
                      ELSE Return("real", ChartEntries(monthlyDataMap))

calculateMonthlyDefectRateData(machine, mould, dateRange, store, rnd) ==
    LET try == MonthlyTry(machine, mould, dateRange, store, rnd)
    IN  IF try = Throw THEN MonthlyCatch(dateRange, mould, rnd) ELSE try

-----------------------------------------------------------------------------
(* kpiService: calculateKPIs.  The rates of a snapshot are fractions in their *)
(* natural unit (percent, hours).                                            *)

\* adjustedDate.setHours(8, 0, 0, 0)
adjustStartDateToCycleTime(date) == [date EXCEPT !.h = 8]

KpiCatch_Rethrow(machine, mould, dateRange, rnd) == Throw

\* lines 761-780
KpiCatch(machine, mould, dateRange, rnd) ==
    Return("test", generateTestKPIData(machine, mould, dateRange, rnd))

\* lines 620-759
KpiTry(machine, mould, dateRange, store, rnd) ==
    IF store.telemetry.kind = "fail" THEN Throw
    ELSE IF store.telemetry.kind = "nodata" THEN Throw
    ELSE LET mongoRows == store.telemetry.rows
             mouldFilteredDocs == Filter(mongoRows, mould)
             totalUnitsProduced == SumField(mouldFilteredDocs, "D6")
             totalRejection == SumField(mouldFilteredDocs, "D52")
             postDowntimeDR == calculatePostDowntimeDR(mongoRows, mould)
             totalDowntime == calculateTotalDowntime(mongoRows, mould)
             cycleTimeSeconds == fetchCycleTime(mould, store.mapping)
             moldHealthIndex ==
                 calculateMoldHealthIndex(totalUnitsProduced, totalRejection,
                                          totalDowntime, cycleTimeSeconds)
             result ==
                 [totalUnitsProduced |-> totalUnitsProduced,
                  totalRejection |-> totalRejection,
                  postDowntimeDR |-> Frac(postDowntimeDR, 100),
                  totalDowntime |-> Frac(totalDowntime, 100),
                  moldHealthIndex |-> Frac(moldHealthIndex, 100),
                  topRejectionReasons |-> calculateTopRejectionReasons(mongoRows, mould),
                  documentCount |-> Len(mouldFilteredDocs),
                  dateRange |-> <<adjustStartDateToCycleTime(dateRange.startDate),
                                  dateRange.endDate>>,
                  machine |-> machine,
                  mould |-> mould]
         IN  IF Len(mouldFilteredDocs) = 0
             THEN Return("test", generateTestKPIData(machine, mould, dateRange, rnd))
             ELSE IF totalUnitsProduced = 0
             THEN Return("test", generateTestKPIData(machine, mould, dateRange, rnd))
             ELSE Return("real", result)

calculateKPIs(machine, mould, dateRange, store, rnd) ==
    LET try == KpiTry(machine, mould, dateRange, store, rnd)
    IN  IF try = Throw THEN KpiCatch(machine, mould, dateRange, rnd) ELSE try

-----------------------------------------------------------------------------
(* kpiService: calculateProductionVsTargetData.  Quantities are integers, so *)
(* Math.round leaves the monthly sums as they are; a document's instant is   *)
(* taken in the zone of the dashboard, Asia/Calcutta.                        *)

PPTrayNew == <<"P", "P", " ", "T", "R", "A", "Y", " ", "N", "E", "W">>

\* Math.floor of a non-negative fraction
Floor(x) == x.n \div x.d

\* lines 1738-1756: seven months, two draws each
generateTestProductionVsTargetData(mould, rnd) ==
    LET baseProduction == IF mould = Str(PPTrayNew) THEN 1100 ELSE 1200
        baseTarget == baseProduction + 100
    IN  [i \in 1..7 |->
            [month |-> i - 1,
             production |-> baseProduction
                            + Floor(FMul(Random(rnd, 2 * (i - 1)), Frac(200, 1))),
             target |-> baseTarget
                        + Floor(FMul(Random(rnd, 2 * (i - 1) + 1), Frac(150, 1)))]]

RECURSIVE DigitPrefix(_)
DigitPrefix(s) ==
    IF s # <<>> /\ IsDigit(Head(s)) THEN <<Head(s)>> \o DigitPrefix(Tail(s)) ELSE <<>>

\* parseFloat on integer literals: leading blanks, an optional sign, then the
\* longest run of digits; NaN when there is no digit
ParseFloat(s) ==
    LET u == TrimLeft(s)
        signed == u # <<>> /\ Head(u) \in {"-", "+"}
        digits == DigitPrefix(IF signed THEN Tail(u) ELSE u)
    IN  IF digits = <<>> THEN NaN
        ELSE Num(IF signed /\ Head(u) = "-" THEN -ParseDigits(digits, 0)
                 ELSE ParseDigits(digits, 0))

\* parseFloat(String(row.data?.F || 0))
Quantity(row, f) ==
    LET v == Field(row, f)
    IN  ParseFloat(JsString(IF Truthy(v) THEN v ELSE Num(0)))

\* lines 1626-1652: mouldFromData === mould, and one of the two quantities valid
KeepProductionRow(row, mould) ==
    LET production == Quantity(row, "D6")
        target == Quantity(row, "D10")
    IN  /\ Field(row, "D17") = mould
        /\ \/ ~IsNaN(production) /\ production.v >= 0
           \/ ~IsNaN(target) /\ target.v >= 0

OrZero(n) == IF IsNaN(n) THEN 0 ELSE n.v

\* lines 1662-1698, one document; a bucket is keyed by month and year
AggregateProductionRow(monthlyAggregation, row) ==
    IF ~ValidTimestamp(row) THEN monthlyAggregation
    ELSE LET monthKey == MonthLabel(row.timestamp)
             map1 == IF \E i \in 1..Len(monthlyAggregation) :
                            monthlyAggregation[i].monthKey = monthKey
                     THEN monthlyAggregation
                     ELSE Append(monthlyAggregation,
                                 [monthKey |-> monthKey, production |-> 0,
                                  target |-> 0, count |-> 0])
         IN  [i \in 1..Len(map1) |->
                IF map1[i].monthKey = monthKey
                THEN [map1[i] EXCEPT !.production = @ + OrZero(Quantity(row, "D6")),
                                     !.target = @ + OrZero(Quantity(row, "D10")),
                                     !.count = @ + 1]
                ELSE map1[i]]

RECURSIVE AggregateProduction(_, _)
AggregateProduction(monthlyAggregation, rows) ==
    IF rows = <<>> THEN monthlyAggregation
    ELSE AggregateProduction(AggregateProductionRow(monthlyAggregation, Head(rows)),
                             Tail(rows))

RECURSIVE InsertByMonthOrder(_, _)
InsertByMonthOrder(sorted, e) ==
    IF sorted = <<>> THEN <<e>>
    ELSE IF e.month < Head(sorted).month THEN <<e>> \o sorted
    ELSE <<Head(sorted)>> \o InsertByMonthOrder(Tail(sorted), e)

\* lines 1709-1713: a stable sort by position in Jan..Dec
RECURSIVE SortByMonthOrder(_)
SortByMonthOrder(entries) ==
    IF entries = <<>> THEN <<>>
    ELSE InsertByMonthOrder(SortByMonthOrder(SubSeq(entries, 1, Len(entries) - 1)),
                            entries[Len(entries)])

\* lines 1701-1713: the label keeps the month and drops the year
ProductionEntries(monthlyAggregation) ==
    SortByMonthOrder([i \in 1..Len(monthlyAggregation) |->
                        [month |-> monthlyAggregation[i].monthKey.mo,
                         production |-> monthlyAggregation[i].production,
                         target |-> monthlyAggregation[i].target]])

\* lines 1725-1730
ProductionCatch(mould, rnd) ==
    Return("test", generateTestProductionVsTargetData(mould, rnd))

\* lines 1590-1724
ProductionTry(machine, mould, dateRange, store, rnd) ==
    IF store.telemetry.kind = "fail" THEN Throw
    ELSE IF store.telemetry.kind = "nodata" THEN Throw
    ELSE LET apiData == store.telemetry.rows
             filteredData == SelectSeq(apiData, LAMBDA row : KeepProductionRow(row, mould))
             productionVsTargetData ==
                 ProductionEntries(AggregateProduction(<<>>, filteredData))
         IN  IF Len(apiData) = 0
             THEN Return("test", generateTestProductionVsTargetData(mould, rnd))
             ELSE IF Len(filteredData) = 0
             THEN Return("test", generateTestProductionVsTargetData(mould, rnd))
             ELSE IF Len(productionVsTargetData) > 0
             THEN Return("real", productionVsTargetData)
             ELSE Return("test", generateTestProductionVsTargetData(mould, rnd))

calculateProductionVsTargetData(machine, mould, dateRange, store, rnd) ==
    LET try == ProductionTry(machine, mould, dateRange, store, rnd)
    IN  IF try = Throw THEN ProductionCatch(mould, rnd) ELSE try

-----------------------------------------------------------------------------
(* SpecReasons: the two rejection-reason results over the same documents *)

MachineM1 == <<"M", "1">>

Q1_2025 == getDateRangeForTimePeriod("q1", Null, Null, 2025, MakeDate(2025, 7, 15, 9))

ReasonData ==
    { [D17 |-> Str(<<"A">>), D52 |-> Num(5)],
      [D17 |-> Str(<<"A">>), D52 |-> Num(3), D53 |-> Str(<<"F">>)],
      [D17 |-> Str(<<" ", "A", " ">>), D52 |-> Str(<<"2">>), D53 |-> Str(<<" ", "F", " ">>)],
      [D17 |-> Str(<<"A">>), D52 |-> Num(0), D53 |-> Str(<<"S">>)],
      [D17 |-> Str(<<"A">>), D52 |-> Num(-2), D53 |-> Str(<<"S">>)],
      [D17 |-> Str(<<"A">>), D52 |-> Str(<<"x">>), D53 |-> Str(<<"S">>)],
      [D17 |-> Str(<<"B">>), D52 |-> Num(7), D53 |-> Str(<<"F">>)],
      [D17 |-> Str(<<"A">>), D52 |-> Num(4), D53 |-> Str(<<" ", " ">>)],
      [D17 |-> Str(<<"A">>), D52 |-> Num(1), D53 |-> Str(<<"S">>)],
      [D17 |-> Str(<<"A">>), D52 |-> Num(2), D53 |-> Str(<<"W">>)] }

\* every kind of document inside Q1 2025, and one without a timestamp and one
\* dated after the range
ReasonDocs ==
    [timestamp : {Day(2025, 1, 10)}, data : ReasonData]
    \cup [timestamp : {Undefined, Day(2025, 5, 1)},
          data : {[D17 |-> Str(<<"A">>), D52 |-> Num(3), D53 |-> Str(<<"F">>)]}]

MaxReasonDocs == 3

ReasonInputs ==
    [op : {"reasons"}, documents : SeqsUpTo(ReasonDocs, MaxReasonDocs),
     machine : {MachineM1}, mould : {MouldA}, dateRange : {Q1_2025},
     rnd : {[i \in 0..(RandPeriod - 1) |-> 0]}]

InitReasons ==
    /\ input \in ReasonInputs
    /\ output = NotRun
    /\ DashIdle

\* calculateKPIs' call at line 725
RankReasons ==
    /\ input.op = "reasons"
    /\ output = NotRun
    /\ output' = [kind |-> "top",
                  value |-> calculateTopRejectionReasons(input.documents, input.mould)]
    /\ UNCHANGED <<input, dashVars>>

BreakDown ==
    /\ input.op = "reasons"
    /\ output = NotRun
    /\ output' = [kind |-> "breakdown",
                  result |-> calculateDefectReasonBreakdown(
                      input.machine, input.mould, input.dateRange,
                      [telemetry |-> Rows(input.documents),
                       again |-> Rows(input.documents)], input.rnd)]
    /\ UNCHANGED <<input, dashVars>>

NextReasons == RankReasons \/ BreakDown

SpecReasons == InitReasons /\ [][NextReasons]_vars

\* the documents of the selected mould (trimmed, case-sensitive)
OfMould(doc, mould) ==
    /\ Field(doc, "D17").t = "str"
    /\ Trim(Field(doc, "D17").s) = Trim(mould.s)

\* the rejection count of a document when it is a positive number, else 0
PositiveRejection(doc) ==
    LET n == ToNumber(Field(doc, "D52"))
    IN  IF n.t = "num" /\ n.v > 0 THEN n.v ELSE 0

RECURSIVE PositiveRejections(_, _)
PositiveRejections(docs, mould) ==
    IF docs = <<>> THEN 0
    ELSE (IF OfMould(Head(docs), mould) THEN PositiveRejection(Head(docs)) ELSE 0)
         + PositiveRejections(Tail(docs), mould)

\* C7: the counts returned by calculateTopRejectionReasons sum to at most the
\* positive numeric rejection counts of the mould's documents, and every
\* returned count is > 0.
C7_TopReasonsBounded ==
    output.kind = "top" =>
        /\ SumCount(output.value) <= PositiveRejections(input.documents, input.mould)
        /\ \A i \in 1..Len(output.value) : output.value[i].count > 0

\* one reason returned while a negative count and another mould's document are skipped
C7_Witness ==
    /\ output.kind = "top"
    /\ Len(output.value) = 1
    /\ output.value[1].count = 3
    /\ \E i \in 1..Len(input.documents) :
          ToNumber(Field(input.documents[i], "D52")) = Num(-2)
    /\ \E i \in 1..Len(input.documents) : ~OfMould(input.documents[i], input.mould)

NoReason(doc) ==
    \/ Field(doc, "D53") = Undefined
    \/ Field(doc, "D53").t = "str" /\ Trim(Field(doc, "D53").s) = <<>>

\* the (reason, count) pairs of a rejection-reason result built from real documents
RealReasonEntries ==
    IF output.kind = "top"
    THEN {<<output.value[i].reason, output.value[i].count>> : i \in 1..Len(output.value)}
    ELSE IF output.kind = "breakdown" /\ output.result.via = "real"
    THEN {<<output.result.value[i].name, output.result.value[i].count>> :
             i \in 1..Len(output.result.value)}
    ELSE {}

\* C8: in both results a mould-matching document with a positive rejection count
\* and an absent or blank reason is counted under "Unknown Reason".
C8_UnknownReasonSentinel ==
    (output.kind = "top" \/ (output.kind = "breakdown" /\ output.result.via = "real")) =>
        \A i \in 1..Len(input.documents) :
            LET doc == input.documents[i]
            IN  (OfMould(doc, input.mould) /\ PositiveRejection(doc) > 0 /\ NoReason(doc)) =>
                    \E e \in RealReasonEntries :
                        e[1] = UnknownReason /\ e[2] >= PositiveRejection(doc)


-----------------------------------------------------------------------------
(* SpecMonthly: calculateMonthlyDefectRateData over resolved ranges and      *)
(* documents of the months around them                                      *)

CustomRange(startDate, endDate) ==
    getDateRangeForTimePeriod("custom", startDate, endDate, 2025, MakeDate(2025, 7, 15, 9))

\* ranges starting on day 1, 15, 29, 30 and 31, within a year and across years
MonthlyRanges ==
    { Q1_2025,
      CustomRange(MakeDate(2025, 0, 15, 0), MakeDate(2025, 2, 15, 0)),
      CustomRange(MakeDate(2025, 0, 31, 0), MakeDate(2025, 2, 15, 0)),
      CustomRange(MakeDate(2025, 0, 29, 0), MakeDate(2025, 1, 20, 0)),
      CustomRange(MakeDate(2024, 11, 30, 0), MakeDate(2025, 1, 10, 0)),
      CustomRange(MakeDate(2024, 10, 20, 0), MakeDate(2025, 0, 10, 0)) }

MonthlyData ==
    { [D17 |-> Str(<<"A">>), D6 |-> Num(10), D52 |-> Num(2)],
      [D17 |-> Str(<<"A">>), D52 |-> Num(3)],
      [D17 |-> Str(<<" ", "A", " ">>), D6 |-> Str(<<"4">>), D52 |-> Num(-1)],
      [D17 |-> Str(<<"B">>), D6 |-> Num(7)] }

MonthlyDocs ==
    [timestamp : {Day(2024, 11, 31), Day(2025, 0, 31), Day(2025, 1, 10)}, data : MonthlyData]
    \cup { [timestamp |-> BadTimestamp,
            data |-> [D17 |-> Str(<<"A">>), D6 |-> Num(10), D52 |-> Num(2)]],
           [timestamp |-> Undefined, createdAt |-> Day(2025, 2, 10),
            data |-> [D17 |-> Str(<<"A">>), D6 |-> Num(10), D52 |-> Num(2)]],
           [timestamp |-> Undefined, data |-> Undefined] }

MaxMonthlyDocs == 2

MonthlyInputs ==
    [op : {"calculateMonthlyDefectRateData"},
     documents : SeqsUpTo(MonthlyDocs, MaxMonthlyDocs),
     machine : {MachineM1}, mould : {MouldA}, dateRange : MonthlyRanges]

InitMonthly ==
    /\ input \in MonthlyInputs
    /\ output = NotRun
    /\ DashIdle

ComputeMonthly ==
    /\ input.op = "calculateMonthlyDefectRateData"
    /\ output = NotRun
    /\ \E rnd \in RandomSources :
          output' = [kind |-> "monthly",
                     result |-> calculateMonthlyDefectRateData(
                         input.machine, input.mould, input.dateRange,
                         [telemetry |-> Rows(input.documents)], rnd)]
    /\ UNCHANGED <<input, dashVars>>

NextMonthly == ComputeMonthly

SpecMonthly == InitMonthly /\ [][NextMonthly]_vars

\* the series computed from real documents
RealSeries == output.kind = "monthly" /\ output.result.via = "real"

\* the calendar months touched by [start, end], as year * 12 + month
MonthsTouched(dateRange) ==
    (dateRange.startDate.y * 12 + dateRange.startDate.mo)
        .. (dateRange.endDate.y * 12 + dateRange.endDate.mo)

\* C1: the series computed from real documents has exactly one entry per
\* calendar month touched by the range, in ascending chronological order.
C1_OneEntryPerMonthTouched ==
    RealSeries =>
        LET series == output.result.value
            first == input.dateRange.startDate.y * 12 + input.dateRange.startDate.mo
        IN  /\ Len(series) = Cardinality(MonthsTouched(input.dateRange))
            /\ \A i \in 1..Len(series) :
                  series[i].month.y * 12 + series[i].month.mo = first + i - 1

\* C10: an entry of the monthly series with unitsProduced 0 has defectRate 0.
C10_ZeroUnitsZeroRate ==
    output.kind = "monthly" =>
        \A i \in 1..Len(output.result.value) :
            LET e == output.result.value[i]
            IN  ("unitsProduced" \in DOMAIN e /\ e.unitsProduced = 0) => e.defectRate = FZero

\* a month with defects and no units beside a month with units
C10_Witness ==
    /\ RealSeries
    /\ \E i, j \in 1..Len(output.result.value) :
          /\ output.result.value[i].unitsProduced = 0
          /\ output.result.value[i].defectUnits > 0
          /\ output.result.value[i].defectRate = FZero
          /\ output.result.value[j].unitsProduced > 0


\* the instant a document is dated by: its timestamp, else its createdAt
InstantOf(doc) ==
    IF doc.timestamp \notin {Undefined, BadTimestamp} THEN doc.timestamp
    ELSE IF "createdAt" \in DOMAIN doc /\ doc.createdAt \notin {Undefined, BadTimestamp}
    THEN doc.createdAt
    ELSE Null

\* a field's value when it is present, non-null and a number, else 0
FiniteValue(doc, f) ==
    LET n == ToNumber(Field(doc, f))
    IN  IF Field(doc, f) \notin {Undefined, JsNull} /\ n.t = "num" THEN n.v ELSE 0

\* the document is of the mould and dated inside the range, in the month `month`
LandsIn(doc, mould, dateRange, month) ==
    /\ OfMould(doc, mould)
    /\ InstantOf(doc) # Null
    /\ GetTime(InstantOf(doc)) >= GetTime(dateRange.startDate)
    /\ GetTime(InstantOf(doc)) <= GetTime(dateRange.endDate)
    /\ InstantOf(doc).y = month.y /\ InstantOf(doc).mo = month.mo

\* the sum of the valid values of field f over the documents landing in `month`
RECURSIVE MonthSum(_, _, _, _, _)
MonthSum(docs, mould, dateRange, month, f) ==
    IF docs = <<>> THEN 0
    ELSE (IF LandsIn(Head(docs), mould, dateRange, month)
          THEN FiniteValue(Head(docs), f) ELSE 0)
         + MonthSum(Tail(docs), mould, dateRange, month, f)

\* C11: each month's unitsProduced and defectUnits of the real monthly series are
\* the sums of the valid (present, non-null, numeric) unit and defect values of the
\* mould's documents dated in that month inside the range, and
\* defectRate = defectUnits / unitsProduced * 100.
C11_MonthlySumsOfValidValues ==
    RealSeries =>
        \A i \in 1..Len(output.result.value) :
            LET e == output.result.value[i]
                units == MonthSum(input.documents, input.mould, input.dateRange,
                                  e.month, "D6")
                defects == MonthSum(input.documents, input.mould, input.dateRange,
                                    e.month, "D52")
            IN  /\ e.unitsProduced = units
                /\ e.defectUnits = defects
                /\ e.defectRate = IF units > 0 THEN Frac(defects * 100, units) ELSE FZero

\* the store answered with documents and none of them is of the mould
NoneOfMould ==
    /\ input.documents # <<>>
    /\ \A i \in 1..Len(input.documents) : ~OfMould(input.documents[i], input.mould)

\* C14: when the store returns documents none of which matches the mould,
\* calculateMonthlyDefectRateData returns a synthesized monthly series: entries with
\* month, unitsProduced, defectUnits and defectRate, one per month of the range.
C14_NoMatchGivesMonthlySeries ==
    (output.kind = "monthly" /\ NoneOfMould) =>
        /\ output.result.via = "test"
        /\ Len(output.result.value) = Cardinality(MonthsTouched(input.dateRange))
        /\ \A i \in 1..Len(output.result.value) :
              DOMAIN output.result.value[i]
                  = {"month", "unitsProduced", "defectUnits", "defectRate"}

-----------------------------------------------------------------------------
(* SpecFaults: the four public operations under every answer of the store *)

FaultData ==
    { [D17 |-> Str(<<"A">>), D6 |-> Num(10), D52 |-> Num(2), D53 |-> Str(<<"F">>),
       D9 |-> Num(3600), D2 |-> Str(<<"r", "u", "n">>), D10 |-> Num(12)],
      [D17 |-> Str(<<"B">>), D6 |-> Num(7)],
      [D17 |-> Str(<<"A">>)],
      [D17 |-> Str(<<"A">>), D6 |-> Str(<<"x">>), D52 |-> Str(<<"y">>),
       D10 |-> Str(<<"z">>)] }

FaultDocs ==
    [timestamp : {Day(2025, 1, 10)}, data : FaultData]
    \cup { [timestamp |-> Undefined, data |-> Undefined],
           [timestamp |-> BadTimestamp,
            data |-> [D17 |-> Str(<<"A">>), D6 |-> Num(10), D52 |-> Num(2)]] }

MaxFaultDocs == 2

TelemetryResponses == {Fail, NoData} \cup {Rows(r) : r \in SeqsUpTo(FaultDocs, MaxFaultDocs)}

MappingResponses ==
    { Fail, NoData, Rows(<<>>),
      Rows(<<[data |-> [D0 |-> Str(<<"A">>), D2 |-> Num(30)]]>>),
      Rows(<<[data |-> [D0 |-> Str(<<"A">>), D2 |-> Str(<<"x">>)]]>>) }

\* the repeated request of getTotalRejectionUnits fails, lacks the list, or is
\* answered as the first one was
Stores ==
    UNION { { [telemetry |-> t, again |-> a, mapping |-> m] : a \in {Fail, NoData, t} } :
            <<t, m>> \in TelemetryResponses \X MappingResponses }

FaultInputs ==
    [op : {"faults"}, machine : {MachineM1}, mould : {MouldA}, dateRange : {Q1_2025},
     store : Stores]

InitFaults ==
    /\ input \in FaultInputs
    /\ output = NotRun
    /\ DashIdle

Completed(op, result) == [kind |-> "op", op |-> op, result |-> result]

CalculateKPIs ==
    /\ input.op = "faults"
    /\ output = NotRun
    /\ \E rnd \in RandomSources :
          output' = Completed("calculateKPIs",
                        calculateKPIs(input.machine, input.mould, input.dateRange,
                                      input.store, rnd))
    /\ UNCHANGED <<input, dashVars>>

CalculateMonthlyDefectRateData ==
    /\ input.op = "faults"
    /\ output = NotRun
    /\ \E rnd \in RandomSources :
          output' = Completed("calculateMonthlyDefectRateData",
                        calculateMonthlyDefectRateData(input.machine, input.mould,
                                                       input.dateRange, input.store, rnd))
    /\ UNCHANGED <<input, dashVars>>

CalculateDefectReasonBreakdown ==
    /\ input.op = "faults"
    /\ output = NotRun
    /\ \E rnd \in RandomSources :
          output' = Completed("calculateDefectReasonBreakdown",
                        calculateDefectReasonBreakdown(input.machine, input.mould,
                                                       input.dateRange, input.store, rnd))
    /\ UNCHANGED <<input, dashVars>>

CalculateProductionVsTargetData ==
    /\ input.op = "faults"
    /\ output = NotRun
    /\ \E rnd \in RandomSources :
          output' = Completed("calculateProductionVsTargetData",
                        calculateProductionVsTargetData(input.machine, input.mould,
                                                        input.dateRange, input.store, rnd))
    /\ UNCHANGED <<input, dashVars>>

NextFaults ==
    \/ CalculateKPIs
    \/ CalculateMonthlyDefectRateData
    \/ CalculateDefectReasonBreakdown
    \/ CalculateProductionVsTargetData

SpecFaults == InitFaults /\ [][NextFaults]_vars

\* C3: whatever the store answers, each of the four public operations completes
\* by returning a value; none lets a thrown error reach its caller.
C3_OperationsNeverThrow ==
    output.kind = "op" => output.result.kind = "return"

\* calculateKPIs returns although every request of the store failed
C3_Witness ==
    /\ output.kind = "op"
    /\ output.op = "calculateKPIs"
    /\ input.store.telemetry = Fail
    /\ input.store.mapping = Fail
    /\ output.result.kind = "return"

\* the store answered with documents of the mould and none carries a unit count
\* other than zero
MouldWithoutUnits ==
    /\ input.store.telemetry.kind = "rows"
    /\ \E i \in 1..Len(input.store.telemetry.rows) :
          OfMould(input.store.telemetry.rows[i], input.mould)
    /\ \A i \in 1..Len(input.store.telemetry.rows) :
          OfMould(input.store.telemetry.rows[i], input.mould)
              => FiniteValue(input.store.telemetry.rows[i], "D6") = 0

-----------------------------------------------------------------------------
(* SpecSynth: the KPI snapshot and the monthly series of one selection, each *)
(* call drawing from the random source on its own                            *)

SynthResponses ==
    { Fail, NoData, Rows(<<>>),
      Rows(<<[timestamp |-> Day(2025, 1, 10), data |-> [D17 |-> Str(<<"B">>), D6 |-> Num(7)]]>>),
      Rows(<<[timestamp |-> Day(2025, 1, 10), data |-> [D17 |-> Str(<<"A">>), D52 |-> Num(2)]]>>),
      Rows(<<[timestamp |-> Day(2025, 1, 10),
              data |-> [D17 |-> Str(<<"A">>), D6 |-> Num(10), D52 |-> Num(2)]]>>) }

SynthInputs ==
    [op : {"views"}, machine : {MachineM1}, mould : {MouldA},
     dateRange : {Q1_2025, CustomRange(MakeDate(2025, 0, 15, 0), MakeDate(2025, 1, 15, 0))},
     store : {[telemetry |-> t, again |-> t, mapping |-> Rows(<<>>)] : t \in SynthResponses}]

InitSynth ==
    /\ input \in SynthInputs
    /\ output = [kind |-> "views", kpi |-> NotRun, monthly |-> NotRun]
    /\ DashIdle

\* the KPI card's call
LoadKPIs ==
    /\ input.op = "views"
    /\ output.kpi = NotRun
    /\ \E rnd \in RandomSources :
          output' = [output EXCEPT !.kpi =
                        calculateKPIs(input.machine, input.mould, input.dateRange,
                                      input.store, rnd)]
    /\ UNCHANGED <<input, dashVars>>

\* the monthly chart's call
LoadMonthly ==
    /\ input.op = "views"
    /\ output.monthly = NotRun
    /\ \E rnd \in RandomSources :
          output' = [output EXCEPT !.monthly =
                        calculateMonthlyDefectRateData(input.machine, input.mould,
                                                       input.dateRange, input.store, rnd)]
    /\ UNCHANGED <<input, dashVars>>

NextSynth == LoadKPIs \/ LoadMonthly

SpecSynth == InitSynth /\ [][NextSynth]_vars

\* the sum of unitsProduced over a series; NaN when an entry carries no such field
RECURSIVE SeriesUnits(_)
SeriesUnits(series) ==
    IF series = <<>> THEN Num(0)
    ELSE LET rest == SeriesUnits(Tail(series))
         IN  IF "unitsProduced" \notin DOMAIN Head(series) \/ IsNaN(rest) THEN NaN
             ELSE Num(Head(series).unitsProduced + rest.v)

BothSynthesized ==
    /\ output.kind = "views"
    /\ output.kpi # NotRun /\ output.kpi.via = "test"
    /\ output.monthly # NotRun /\ output.monthly.via = "test"

\* C2: when both views of a selection are synthesized, the snapshot's
\* totalUnitsProduced is the sum of unitsProduced over the synthesized series.
C2_SynthesizedTotalsAgree ==
    BothSynthesized =>
        Num(output.kpi.value.totalUnitsProduced) = SeriesUnits(output.monthly.value)


-----------------------------------------------------------------------------
(* SpecDash: the dashboard's KPI effect (Index).  A change of a filter       *)
(* clears the pending timer and sets a new one; a timer that fires starts     *)
(* calculateKPI, which awaits calculateKPIs and then stores its result.       *)

hardcodedMachines == <<"SDPLYPLC_A1_Timeline", "SDPLYPLC_A2_Timeline">>

DashMoulds == {Str(PPTrayNew), MouldA}

DashTimePeriods == {"current-quarter", "q1"}

DashNow == MakeDate(2025, 7, 15, 9)

\* the date-range effect, lines 182-194: the reference year is 2025
CurrentDateRange(f) == getDateRangeForTimePeriod(f.timePeriod, Null, Null, 2025, DashNow)

\* what a scheduled calculateKPI closes over
Closure(f) == [machine |-> f.machine, mould |-> f.mould, dateRange |-> CurrentDateRange(f)]

MaxChanges == 2

DashStores ==
    { [telemetry |-> Fail, again |-> Fail, mapping |-> Fail],
      [telemetry |->
          Rows(<< [timestamp |-> Day(2025, 1, 10),
                   data |-> [D17 |-> Str(PPTrayNew), D6 |-> Num(10), D52 |-> Num(1)]],
                  [timestamp |-> Day(2025, 1, 10),
                   data |-> [D17 |-> Str(<<"A">>), D6 |-> Num(20), D52 |-> Num(2)]] >>),
       again |-> Fail, mapping |-> Rows(<<>>)] }

InitialFilters ==
    [machine |-> hardcodedMachines[1], mould |-> Str(PPTrayNew),
     timePeriod |-> "current-quarter"]

\* the first render has set the filters, resolved the date range and set the timer
InitDash ==
    /\ input \in [op : {"dashboard"}, store : DashStores]
    /\ output = NotRun
    /\ filters = [machine |-> hardcodedMachines[1], mould |-> Str(PPTrayNew),
                  timePeriod |-> "current-quarter"]
    /\ timeoutId = [kind |-> "timer", id |-> 0, closure |-> Closure(filters)]
    /\ inflight = {}
    /\ kpiData = Null
    /\ isLoadingKPI = FALSE
    /\ changes = 0

\* handleFilterChange(key, value), then the effects of the new render: the cleanup
\* clears the pending timer, the effect sets one for the new selection
ChangeSelection ==
    /\ changes < MaxChanges
    /\ \E f \in [machine : {hardcodedMachines[i] : i \in 1..Len(hardcodedMachines)},
                 mould : DashMoulds, timePeriod : DashTimePeriods] :
          /\ \/ f.machine # filters.machine /\ f.mould = filters.mould
                   /\ f.timePeriod = filters.timePeriod
             \/ f.machine = filters.machine /\ f.mould # filters.mould
                   /\ f.timePeriod = filters.timePeriod
             \/ f.machine = filters.machine /\ f.mould = filters.mould
                   /\ f.timePeriod # filters.timePeriod
          /\ filters' = f
          /\ timeoutId' = [kind |-> "timer", id |-> changes + 1, closure |-> Closure(f)]
    /\ changes' = changes + 1
    /\ UNCHANGED <<inflight, kpiData, isLoadingKPI, input, output>>

TimerFire_NotCancelled ==
    /\ timeoutId # Null
    /\ isLoadingKPI' = TRUE
    /\ \E id \in 0..timeoutId.id :
          inflight' = inflight \cup {[id |-> id, closure |-> Closure(InitialFilters)]}
    /\ timeoutId' = Null
    /\ UNCHANGED <<filters, kpiData, changes, input, output>>

\* the timer fires: calculateKPI runs up to its await
TimerFire ==
    /\ timeoutId # Null
    /\ isLoadingKPI' = TRUE
    /\ inflight' = inflight \cup {[id |-> timeoutId.id, closure |-> timeoutId.closure]}
    /\ timeoutId' = Null
    /\ UNCHANGED <<filters, kpiData, changes, input, output>>

\* lines 214-226: setKpiData(result), or setKpiData(null) when the await throws
Settled(result) == IF result = Throw THEN Null ELSE result.value

\* what the timers of the dashboard's selections close over
DashClosures ==
    { Closure(f) : f \in [machine : {hardcodedMachines[i] : i \in 1..Len(hardcodedMachines)},
                          mould : DashMoulds, timePeriod : DashTimePeriods] }

\* lines 214-218: calculateKPIs(filters.machine, filters.mould, currentDateRange),
\* evaluated once for every closure, store and random source
KpiResults ==
    { <<c, st, rnd, calculateKPIs(c.machine, c.mould, c.dateRange, st, rnd)>> :
        c \in DashClosures, st \in DashStores, rnd \in RandomSources }

KpiResult(closure, store, rnd) ==
    (CHOOSE t \in KpiResults : t[1] = closure /\ t[2] = store /\ t[3] = rnd)[4]

\* a pending calculateKPIs settles: calculateKPI resumes after its await
Respond ==
    \E req \in inflight :
        \E rnd \in RandomSources :
            /\ kpiData' = Settled(KpiResult(req.closure, input.store, rnd))
            /\ isLoadingKPI' = FALSE
            /\ inflight' = inflight \ {req}
            /\ UNCHANGED <<filters, timeoutId, changes, input, output>>

NextDash == ChangeSelection \/ TimerFire \/ Respond

SpecDash == InitDash /\ [][NextDash]_vars

\* the request of the latest selection has been started and has settled
LatestCompleted ==
    /\ filters # Null
    /\ timeoutId = Null
    /\ \A req \in inflight : req.id # changes

\* the stored snapshot was computed for the selection now on screen
ForLatestSelection ==
    /\ kpiData # Null
    /\ kpiData.machine = filters.machine
    /\ kpiData.mould = filters.mould
    /\ kpiData.dateRange = <<adjustStartDateToCycleTime(CurrentDateRange(filters).startDate),
                             CurrentDateRange(filters).endDate>>

\* C4: once the computation for the latest selection has completed, kpiData is
\* never the result of a computation started for another selection.
C4_StaleResultDiscarded ==
    LatestCompleted => ForLatestSelection

\* C29: isLoadingKPI is true in every state in which a KPI computation started
\* by the KPI effect is still in flight, also when two computations overlap.
C29_LoadingWhileInFlight ==
    inflight # {} => isLoadingKPI = TRUE

\* the computations a step starts
Started == inflight' \ inflight

\* C30: a computation that starts is the one scheduled by the latest change of
\* the selection and closes over the selection on screen; the timer of a
\* selection superseded within the delay never starts one.
C30_SupersededNeverStarts ==
    [][\A req \in Started :
          /\ req.id = changes
          /\ req.closure.machine = filters.machine
          /\ req.closure.mould = filters.mould
          /\ req.closure.dateRange = CurrentDateRange(filters)]_vars

\* two selections were superseded within the delay; only the third computation
\* has started and nothing has been stored yet
C30_Witness ==
    /\ changes = MaxChanges
    /\ timeoutId = Null
    /\ inflight = {[id |-> MaxChanges, closure |-> Closure(filters)]}
    /\ kpiData = Null
    /\ isLoadingKPI = TRUE

-----------------------------------------------------------------------------
(* SpecProduction: calculateProductionVsTargetData over the documents the    *)
(* store returns, dated in November 2024, February 2025 and November 2025.   *)

ProductionData ==
    { [D17 |-> Str(<<"A">>), D6 |-> Num(5), D10 |-> Num(10)],
      [D17 |-> Str(<<"A">>), D6 |-> Str(<<"7">>)],
      [D17 |-> Str(<<" ", "A", " ">>), D6 |-> Num(3), D10 |-> Num(10)],
      [D17 |-> Str(<<"B">>), D6 |-> Num(9), D10 |-> Num(10)] }

ProductionDocs ==
    [timestamp : {Day(2024, 10, 20), Day(2025, 1, 10), Day(2025, 10, 5)},
     data : ProductionData]
    \cup { [timestamp |-> BadTimestamp,
            data |-> [D17 |-> Str(<<"A">>), D6 |-> Num(5), D10 |-> Num(10)]] }

MaxProductionDocs == 2

ProductionInputs ==
    [op : {"calculateProductionVsTargetData"},
     documents : SeqsUpTo(ProductionDocs, MaxProductionDocs),
     machine : {MachineM1}, mould : {MouldA},
     dateRange : {CustomRange(MakeDate(2024, 10, 1, 0), MakeDate(2025, 10, 30, 0))}]

InitProduction ==
    /\ input \in ProductionInputs
    /\ output = NotRun
    /\ DashIdle

ComputeProduction ==
    /\ input.op = "calculateProductionVsTargetData"
    /\ output = NotRun
    /\ \E rnd \in RandomSources :
          output' = [kind |-> "production",
                     result |-> calculateProductionVsTargetData(
                         input.machine, input.mould, input.dateRange,
                         [telemetry |-> Rows(input.documents)], rnd)]
    /\ UNCHANGED <<input, dashVars>>

NextProduction == ComputeProduction

SpecProduction == InitProduction /\ [][NextProduction]_vars

RealProduction == output.kind = "production" /\ output.result.via = "real"

RECURSIVE SumProduction(_)
SumProduction(entries) ==
    IF entries = <<>> THEN 0 ELSE Head(entries).production + SumProduction(Tail(entries))

\* the production of the dated documents whose trimmed mould text is the trimmed
\* selected mould
RECURSIVE ProductionOfMould(_, _)
ProductionOfMould(docs, mould) ==
    IF docs = <<>> THEN 0
    ELSE (IF OfMould(Head(docs), mould) /\ ValidTimestamp(Head(docs))
          THEN FiniteValue(Head(docs), "D6") ELSE 0)
         + ProductionOfMould(Tail(docs), mould)

\* C16: a document is selected for a mould exactly when its mould field, as trimmed
\* text, equals the trimmed selected mould (case-sensitive), so a field differing
\* only by surrounding whitespace is selected: as observed on
\* calculateProductionVsTargetData, a dated document of the mould makes the result
\* real, and the real production total is that of the documents so selected.
C16_TrimmedMouldSelects ==
    output.kind = "production" =>
        /\ (\E i \in 1..Len(input.documents) :
               /\ OfMould(input.documents[i], input.mould)
               /\ ValidTimestamp(input.documents[i]))
           <=> output.result.via = "real"
        /\ output.result.via = "real" =>
              SumProduction(output.result.value)
                  = ProductionOfMould(input.documents, input.mould)

\* the year-months of the dated documents the operation keeps, as year * 12 + month
KeptMonths ==
    { MonthKey(input.documents[i].timestamp) :
        i \in { j \in 1..Len(input.documents) :
                  /\ KeepProductionRow(input.documents[j], input.mould)
                  /\ ValidTimestamp(input.documents[j]) } }

\* C17: the real entries of calculateProductionVsTargetData are one per calendar
\* year-month of the kept documents, in chronological order, also when the months
\* span a year boundary (November 2024 before February 2025).
C17_ChronologicalAcrossYears ==
    RealProduction =>
        [i \in 1..Len(output.result.value) |-> output.result.value[i].month]
            = [i \in 1..Cardinality(KeptMonths) |-> Ascending(KeptMonths)[i] % 12]

-----------------------------------------------------------------------------
(* SpecTestData: the degraded-mode synthesizers generateTestMonthlyData and  *)
(* generateTestKPIData over ranges of one to twenty months starting on       *)
(* different days of the month.                                              *)

TestStarts ==
    {MakeDate(2025, 0, d, 0) : d \in {1, 15, 29, 31}} \cup {MakeDate(2024, 10, 30, 0)}

TestEnds ==
    {MakeDate(2025, 0, 31, 0), MakeDate(2025, 2, 15, 0), MakeDate(2025, 11, 31, 0),
     MakeDate(2026, 5, 30, 0)}

TestRanges ==
    {CustomRange(s, e) : s \in TestStarts, e \in TestEnds}

TestInputs ==
    [op : {"generateTestData"}, machine : {MachineM1}, mould : {MouldA, Str(PPTrayNew)},
     dateRange : TestRanges]

InitTestData ==
    /\ input \in TestInputs
    /\ output = NotRun
    /\ DashIdle

GenerateTestMonthlyData ==
    /\ input.op = "generateTestData"
    /\ output = NotRun
    /\ \E rnd \in RandomSources :
          output' = [kind |-> "testMonthly",
                     value |-> generateTestMonthlyData(input.dateRange, input.mould, rnd)]
    /\ UNCHANGED <<input, dashVars>>

\* the snapshot, with the monthly series its own draws produce
GenerateTestKPIData ==
    /\ input.op = "generateTestData"
    /\ output = NotRun
    /\ \E rnd \in RandomSources :
          output' = [kind |-> "testKPI",
                     value |-> generateTestKPIData(input.machine, input.mould,
                                                   input.dateRange, rnd),
                     monthlyTestData |->
                         generateTestMonthlyData(input.dateRange, input.mould, rnd)]
    /\ UNCHANGED <<input, dashVars>>

NextTestData == GenerateTestMonthlyData \/ GenerateTestKPIData

SpecTestData == InitTestData /\ [][NextTestData]_vars

\* C18: the synthesized monthly series has exactly one entry per calendar month of
\* the range, in order, for any range length (also beyond 13 months) and any start
\* day, and every entry has unitsProduced > 0.
C18_TestSeriesCoversEveryMonth ==
    output.kind = "testMonthly" =>
        /\ [i \in 1..Len(output.value) |-> MonthKey(output.value[i].month)]
              = [i \in 1..Cardinality(MonthsTouched(input.dateRange)) |->
                    MonthKey(input.dateRange.startDate) + i - 1]
        /\ \A i \in 1..Len(output.value) : output.value[i].unitsProduced > 0

\* C19: in the synthesized snapshot the counts of topRejectionReasons sum to
\* totalRejection, and totalRejection is the sum of defectUnits over the monthly
\* series the snapshot was derived from, for every random total.
C19_ReasonCountsSumToTotal ==
    output.kind = "testKPI" =>
        /\ SumCount(output.value.topRejectionReasons) = output.value.totalRejection
        /\ output.value.totalRejection = SumDefects(output.monthlyTestData)

-----------------------------------------------------------------------------
(* SpecPostRate: calculatePostDowntimeDR over streams that mix the documents *)
(* of two moulds, with positive, negative and non-numeric unit counts.       *)

PostRateData ==
    { [D2 |-> Str(<<"D", "O", "W", "N">>), D17 |-> Str(<<"B">>)],
      [D2 |-> Str(<<"r", "u", "n">>), D6 |-> Num(3), D52 |-> Num(1), D17 |-> Str(<<"A">>)],
      [D2 |-> Str(<<"r", "u", "n">>), D6 |-> Num(-4), D52 |-> Num(1),
       D17 |-> Str(<<" ", "A">>)],
      [D2 |-> Str(<<"r", "u", "n">>), D6 |-> Num(5), D52 |-> Num(5), D17 |-> Str(<<"B">>)],
      [D2 |-> Str(<<"r", "u", "n">>), D6 |-> Str(<<"x">>), D52 |-> Num(2),
       D17 |-> Str(<<"A">>)] }

PostRateDocs ==
    [timestamp : {Day(2025, 0, 10), Day(2025, 0, 20)}, data : PostRateData]
    \cup { [timestamp |-> Undefined,
            data |-> [D2 |-> Str(<<"D", "O", "W", "N">>), D17 |-> Str(<<"B">>)]] }

MaxPostRateDocs == 3

PostRateInputs ==
    [op : {"postDowntimeRate"}, documents : SeqsUpTo(PostRateDocs, MaxPostRateDocs),
     mould : {MouldA}]

InitPostRate ==
    /\ input \in PostRateInputs
    /\ output = NotRun
    /\ DashIdle

ComputePostRate ==
    /\ input.op = "postDowntimeRate"
    /\ output = NotRun
    /\ output' = [kind |-> "postRate",
                  value |-> calculatePostDowntimeDR(input.documents, input.mould)]
    /\ UNCHANGED <<input, dashVars>>

NextPostRate == ComputePostRate

SpecPostRate == InitPostRate /\ [][NextPostRate]_vars

\* the candidates of the scan over the documents of every mould that are of the
\* selected mould
MouldCandidates ==
    LET sortedDocs == SortedDocs(input.documents)
        positions == CandidatePositions(sortedDocs)
    IN  SelectSeq([k \in 1..Cardinality(positions) |-> sortedDocs[Ascending(positions)[k]]],
                  LAMBDA doc : OfMould(doc, input.mould))

RECURSIVE SumValid(_, _)
SumValid(docs, f) ==
    IF docs = <<>> THEN 0 ELSE FiniteValue(Head(docs), f) + SumValid(Tail(docs), f)

\* 100 * defects / units rounded to 2 decimals, in hundredths of a percent
RoundedRate(defects, units) ==
    IF units > 0 THEN RoundDiv(10000 * defects, units)
    ELSE RoundDiv(-10000 * defects, -units)

\* C21 (as stated): the scan runs over the documents of all moulds, the candidates
\* are filtered to the selected mould after it, and the result is
\* 100 * sum(defects) / sum(units) over them rounded to 2 decimals, or 0 when that
\* unit sum is 0.
C21_RateOrZeroWhenNoUnits ==
    output.kind = "postRate" =>
        output.value = IF SumValid(MouldCandidates, "D6") = 0 THEN 0
                       ELSE RoundedRate(SumValid(MouldCandidates, "D52"),
                                        SumValid(MouldCandidates, "D6"))

\* C21 (amended): the scan runs over the documents of all moulds, the candidates
\* are filtered to the selected mould after it, and the result is
\* 100 * sum(defects) / sum(units) over them rounded to 2 decimals when that unit
\* sum is greater than 0, and 0 when it is zero or negative.
C21_RateOrZeroWhenUnitsNotPositive ==
    output.kind = "postRate" =>
        output.value = IF SumValid(MouldCandidates, "D6") > 0
                       THEN RoundedRate(SumValid(MouldCandidates, "D52"),
                                        SumValid(MouldCandidates, "D6"))
                       ELSE 0

\* a downtime document of mould B opens the window for a later running document of
\* mould A, whose 1 defect in 3 units gives 33.33 percent
C21_Witness ==
    /\ output.kind = "postRate"
    /\ Len(input.documents) = 2
    /\ IsDowntime(input.documents[1])
    /\ ~OfMould(input.documents[1], input.mould)
    /\ OfMould(input.documents[2], input.mould)
    /\ HasTimestamp(input.documents[1]) /\ HasTimestamp(input.documents[2])
    /\ GetTime(input.documents[1].timestamp) < GetTime(input.documents[2].timestamp)
    /\ output.value = 3333

-----------------------------------------------------------------------------
(* SpecCycle: fetchCycleTime over the answers of the mould-mapping request   *)

MappingData ==
    { [D0 |-> Str(<<"A">>), D2 |-> Num(30)],
      [D0 |-> Str(<<" ", "A", " ">>), D2 |-> Str(<<"4", "5">>)],
      [D0 |-> Str(<<"A">>)],
      [D0 |-> Str(<<"A">>), D2 |-> Str(<<"x">>)],
      [D0 |-> Str(<<"A">>), D2 |-> Num(0)],
      [D0 |-> Str(<<"A">>), D2 |-> JsNull],
      [D0 |-> Str(<<"a">>), D2 |-> Num(15)],
      [D0 |-> Str(<<"B">>), D2 |-> Num(20)] }

MappingDocs == [data : MappingData \cup {Undefined}]

MaxMappingDocs == 3

CycleInputs ==
    [op : {"fetchCycleTime"}, mould : {MouldA, Str(<<"A", " ">>)},
     response : {Fail, NoData} \cup {Rows(r) : r \in SeqsUpTo(MappingDocs, MaxMappingDocs)}]

InitCycle ==
    /\ input \in CycleInputs
    /\ output = NotRun
    /\ DashIdle

FetchCycleTime ==
    /\ input.op = "fetchCycleTime"
    /\ output = NotRun
    /\ output' = [kind |-> "cycleTime", value |-> fetchCycleTime(input.mould, input.response)]
    /\ UNCHANGED <<input, dashVars>>

NextCycle == FetchCycleTime

SpecCycle == InitCycle /\ [][NextCycle]_vars

MappingRows == IF input.response.kind = "rows" THEN input.response.rows ELSE <<>>

\* the entry's trimmed name is the trimmed mould identifier
NamedAsMould(doc) ==
    /\ Field(doc, "D0").t = "str"
    /\ Trim(Field(doc, "D0").s) = Trim(input.mould.s)

\* the positions of the entries named as the mould
NamedPositions == {i \in 1..Len(MappingRows) : NamedAsMould(MappingRows[i])}

\* those among them whose cycle time is present and a positive number
ValidPositions == {i \in NamedPositions : FiniteValue(MappingRows[i], "D2") > 0}

\* C24 (as stated): the result is the cycle time of the first entry named as the
\* mould if that value is present and a positive number, else 0, also when a later
\* entry of the same name carries a valid cycle time.
C24_FirstNamedEntryDecides ==
    output.kind = "cycleTime" =>
        output.value = IF NamedPositions = {} THEN 0
                       ELSE FiniteValue(MappingRows[Ascending(NamedPositions)[1]], "D2")
                                * (IF Ascending(NamedPositions)[1] \in ValidPositions
                                   THEN 1 ELSE 0)

\* C24 (amended): the result is the cycle time of the first entry that is named as
\* the mould and whose cycle time is present and a positive number, and 0 when
\* there is none; an entry of that name with a missing or invalid cycle time is
\* passed over, so a later entry of the same name with a valid one decides.
C24_FirstValidNamedEntryDecides ==
    output.kind = "cycleTime" =>
        output.value = IF ValidPositions = {} THEN 0
                       ELSE FiniteValue(MappingRows[Ascending(ValidPositions)[1]], "D2")

\* the first entry named "A" has no cycle time, the second carries 30
C24_Witness ==
    /\ output.kind = "cycleTime"
    /\ Len(MappingRows) = 2
    /\ NamedPositions = {1, 2}
    /\ ValidPositions = {2}
    /\ Field(MappingRows[1], "D2") = Undefined
    /\ output.value = 30

-----------------------------------------------------------------------------
(* SpecRanking: calculateTopRejectionReasons over documents of up to four    *)
(* different reasons.                                                        *)

RankingData ==
    { [D17 |-> Str(<<"A">>), D52 |-> Num(6), D53 |-> Str(<<"F">>)],
      [D17 |-> Str(<<"A">>), D52 |-> Num(3), D53 |-> Str(<<"S">>)],
      [D17 |-> Str(<<"A">>), D52 |-> Num(2), D53 |-> Str(<<"W">>)],
      [D17 |-> Str(<<"A">>), D52 |-> Num(1)],
      [D17 |-> Str(<<" ", "A">>), D52 |-> Str(<<"3">>), D53 |-> Str(<<" ", "W", " ">>)],
      [D17 |-> Str(<<"A">>), D52 |-> Num(0), D53 |-> Str(<<"B">>)],
      [D17 |-> Str(<<"B">>), D52 |-> Num(9), D53 |-> Str(<<"F">>)] }

RankingDocs == [timestamp : {Day(2025, 1, 10)}, data : RankingData]

MaxRankingDocs == 4

RankingInputs ==
    [op : {"calculateTopRejectionReasons"},
     documents : SeqsUpTo(RankingDocs, MaxRankingDocs), mould : {MouldA}]

InitRanking ==
    /\ input \in RankingInputs
    /\ output = NotRun
    /\ DashIdle

ComputeRanking ==
    /\ input.op = "calculateTopRejectionReasons"
    /\ output = NotRun
    /\ output' = [kind |-> "ranking",
                  value |-> calculateTopRejectionReasons(input.documents, input.mould)]
    /\ UNCHANGED <<input, dashVars>>

NextRanking == ComputeRanking

SpecRanking == InitRanking /\ [][NextRanking]_vars

\* the documents that count: of the mould, with a positive rejection count
Counted(doc) == OfMould(doc, input.mould) /\ PositiveRejection(doc) > 0

\* the reason a document counts for: its trimmed reason text, or 'Unknown Reason'
ReasonLabel(doc) ==
    IF Field(doc, "D53").t = "str" /\ Trim(Field(doc, "D53").s) # <<>>
    THEN Trim(Field(doc, "D53").s)
    ELSE UnknownReason

AccumulatedReasons ==
    { ReasonLabel(input.documents[i]) :
        i \in {j \in 1..Len(input.documents) : Counted(input.documents[j])} }

RECURSIVE AccumulatedCount(_, _)
AccumulatedCount(docs, reason) ==
    IF docs = <<>> THEN 0
    ELSE (IF Counted(Head(docs)) /\ ReasonLabel(Head(docs)) = reason
          THEN PositiveRejection(Head(docs)) ELSE 0)
         + AccumulatedCount(Tail(docs), reason)

ReturnedReasons == {output.value[i].reason : i \in 1..Len(output.value)}

\* C26: calculateTopRejectionReasons returns at most 3 entries in non-increasing
\* order of accumulated count, each one of the reasons with the largest counts (no
\* omitted reason has a larger count than a returned one), with percentage =
\* count / grandTotal * 100 to one decimal where grandTotal is the sum over all
\* accumulated reasons; an empty or all-skipped input yields the empty list.
C26_TopThreeOfGrandTotal ==
    output.kind = "ranking" =>
        /\ Len(output.value) <= 3
        /\ Cardinality(ReturnedReasons) = Len(output.value)
        /\ Cardinality(AccumulatedReasons) <= 3 => ReturnedReasons = AccumulatedReasons
        /\ Cardinality(AccumulatedReasons) > 3 => Len(output.value) = 3
        /\ \A i \in 1..Len(output.value) :
              /\ output.value[i].reason \in AccumulatedReasons
              /\ output.value[i].count
                    = AccumulatedCount(input.documents, output.value[i].reason)
              /\ output.value[i].percentage
                    = RoundDiv(1000 * output.value[i].count,
                               PositiveRejections(input.documents, input.mould))
              /\ i > 1 => output.value[i - 1].count >= output.value[i].count
              /\ \A r \in AccumulatedReasons \ ReturnedReasons :
                    AccumulatedCount(input.documents, r) <= output.value[i].count
        /\ AccumulatedReasons = {} => output.value = <<>>

\* four reasons accumulated: the three largest are returned and their percentages
\* are shares of the total of all four
C26_Witness ==
    /\ output.kind = "ranking"
    /\ Cardinality(AccumulatedReasons) = 4
    /\ Len(output.value) = 3
    /\ SumCount(output.value) < PositiveRejections(input.documents, input.mould)
    /\ output.value[1].percentage = 500

-----------------------------------------------------------------------------
(* SpecTotals: the KPI snapshot and the monthly series computed from the same *)
(* fetched documents, mould and range.                                        *)

TotalsDocs ==
    { [timestamp |-> Day(2025, 1, 10),
       data |-> [D17 |-> Str(<<"A">>), D6 |-> Num(10), D52 |-> Num(2)]],
      [timestamp |-> Day(2025, 2, 5),
       data |-> [D17 |-> Str(<<"A">>), D6 |-> Num(-3), D52 |-> Num(1)]],
      [timestamp |-> Undefined,
       data |-> [D17 |-> Str(<<"A">>), D6 |-> Num(7), D52 |-> Num(1)]],
      [timestamp |-> BadTimestamp,
       data |-> [D17 |-> Str(<<"A">>), D6 |-> Num(4), D52 |-> Num(1)]],
      [timestamp |-> Day(2025, 5, 1),
       data |-> [D17 |-> Str(<<"A">>), D6 |-> Num(5), D52 |-> Num(1)]] }

MaxTotalsDocs == 2

TotalsInputs ==
    [op : {"totals"}, machine : {MachineM1}, mould : {MouldA}, dateRange : {Q1_2025},
     documents : SeqsUpTo(TotalsDocs, MaxTotalsDocs)]

InitTotals ==
    /\ input \in TotalsInputs
    /\ output = [kind |-> "totals", kpi |-> NotRun, monthly |-> NotRun]
    /\ DashIdle

TotalsStore == [telemetry |-> Rows(input.documents), mapping |-> Rows(<<>>)]

ComputeKPIs ==
    /\ input.op = "totals"
    /\ output.kpi = NotRun
    /\ \E rnd \in RandomSources :
          output' = [output EXCEPT !.kpi =
                        calculateKPIs(input.machine, input.mould, input.dateRange,
                                      TotalsStore, rnd)]
    /\ UNCHANGED <<input, dashVars>>

ComputeSeries ==
    /\ input.op = "totals"
    /\ output.monthly = NotRun
    /\ \E rnd \in RandomSources :
          output' = [output EXCEPT !.monthly =
                        calculateMonthlyDefectRateData(input.machine, input.mould,
                                                       input.dateRange, TotalsStore, rnd)]
    /\ UNCHANGED <<input, dashVars>>

NextTotals == ComputeKPIs \/ ComputeSeries

SpecTotals == InitTotals /\ [][NextTotals]_vars

BothReal ==
    /\ output.kind = "totals"
    /\ output.kpi # NotRun /\ output.kpi.via = "real"
    /\ output.monthly # NotRun /\ output.monthly.via = "real"

\* C27: for the same fetched documents, mould and range, the unitsProduced of the
\* real monthly series sum to the totalUnitsProduced of the real KPI snapshot, also
\* when documents of the mould have no timestamp, a timestamp outside the range or
\* a negative unit value.
C27_SeriesTotalIsKpiTotal ==
    BothReal => SumUnits(output.monthly.value) = output.kpi.value.totalUnitsProduced

-----------------------------------------------------------------------------
(* SpecReasonData: generateTestDefectReasonData for target totals around 0,  *)
(* in the two-reason band, and around the 100 and 500 thresholds.            *)

MaxTarget == 60

TargetTotals == (-2..MaxTarget) \cup {72, 100, 101, 107, 500, 501, 503, 1000}

ReasonDataInputs ==
    [op : {"generateTestDefectReasonData"}, mould : {MouldA},
     totalRejectionUnits : TargetTotals]

InitReasonData ==
    /\ input \in ReasonDataInputs
    /\ output = NotRun
    /\ DashIdle

GenerateTestDefectReasonData ==
    /\ input.op = "generateTestDefectReasonData"
    /\ output = NotRun
    /\ output' = [kind |-> "reasonData",
                  value |-> generateTestDefectReasonData(input.mould,
                                                         input.totalRejectionUnits)]
    /\ UNCHANGED <<input, dashVars>>

NextReasonData == GenerateTestDefectReasonData

SpecReasonData == InitReasonData /\ [][NextReasonData]_vars

\* C28: for every positive integer target total the entries of
\* generateTestDefectReasonData have counts > 0, are sorted by non-increasing
\* count and sum exactly to the target total; for a target total <= 0 the result
\* is the empty list.
C28_CountsSumToTarget ==
    output.kind = "reasonData" =>
        IF input.totalRejectionUnits > 0
        THEN /\ \A i \in 1..Len(output.value) : output.value[i].count > 0
             /\ \A i \in 2..Len(output.value) :
                   output.value[i - 1].count >= output.value[i].count
             /\ SumCount(output.value) = input.totalRejectionUnits
        ELSE output.value = <<>>

\* a target of 1000 spread over six reasons
C28_Witness ==
    /\ output.kind = "reasonData"
    /\ input.totalRejectionUnits = 1000
    /\ Len(output.value) = 6
    /\ SumCount(output.value) = 1000

====
